---- MODULE Spec2Model ----
(***************************************************************************)
(* AutoKPI: schema inference (autokpi/schema_inference.py), the KPI rule   *)
(* engine (autokpi/kpi_rules.py, autokpi/creative_kpis.py), the SQL        *)
(* generator (autokpi/sql_generator.py) and the session of the host app    *)
(* (app.py).                                                               *)
(*                                                                         *)
(* A table (pandas DataFrame) is a sequence of columns; a column has a     *)
(* name, a storage type (dtype) and one cell per row.  Text (column names, *)
(* string cells, KPI names) is a sequence of one-character strings, so     *)
(* that lower(), title(), replace() and the regular expressions of the     *)
(* source are computed character by character.                             *)
(*                                                                         *)
(* Arithmetic is exact integer arithmetic (cross-multiplied fractions).    *)
(* The source computes in IEEE doubles; on the integer-valued cells used   *)
(* here the comparisons of the source (u/n > 0.95, k/n*100 > 5, ...) give  *)
(* the same result as the exact ones.                                      *)
(***************************************************************************)
EXTENDS Integers, Sequences, FiniteSets, TLC

(***************************************************************************)
(* Bounds of the model.                                                    *)
(***************************************************************************)
MaxCols == 2
MaxRows == 20

(***************************************************************************)
(* Characters and text.                                                    *)
(***************************************************************************)
LowerAlpha == <<"a", "b", "c", "d", "e", "f", "g", "h", "i", "j", "k", "l", "m", "n", "o", "p", "q", "r", "s", "t", "u", "v", "w", "x", "y", "z">>
UpperAlpha == <<"A", "B", "C", "D", "E", "F", "G", "H", "I", "J", "K", "L", "M", "N", "O", "P", "Q", "R", "S", "T", "U", "V", "W", "X", "Y", "Z">>
Digits == <<"0", "1", "2", "3", "4", "5", "6", "7", "8", "9">>
\* The characters in code point order (str comparison, sorted group keys).
CodeOrder == <<" ", "-", "0", "1", "2", "3", "4", "5", "6", "7", "8", "9", ":", "A", "B", "C", "D", "E", "F", "G", "H", "I", "J", "K", "L", "M", "N", "O", "P", "Q", "R", "S", "T", "U", "V", "W", "X", "Y", "Z", "_", "a", "b", "c", "d", "e", "f", "g", "h", "i", "j", "k", "l", "m", "n", "o", "p", "q", "r", "s", "t", "u", "v", "w", "x", "y", "z">>

IndexIn(c, alpha) == CHOOSE i \in 1..Len(alpha) : alpha[i] = c
IsLowerCh(c) == \E i \in 1..Len(LowerAlpha) : LowerAlpha[i] = c
IsUpperCh(c) == \E i \in 1..Len(UpperAlpha) : UpperAlpha[i] = c
IsDigitCh(c) == \E i \in 1..Len(Digits) : Digits[i] = c
IsCased(c) == IsLowerCh(c) \/ IsUpperCh(c)
\* \w of the re module
IsWordCh(c) == IsCased(c) \/ IsDigitCh(c) \/ c = "_"
LowerCh(c) == IF IsUpperCh(c) THEN LowerAlpha[IndexIn(c, UpperAlpha)] ELSE c
UpperCh(c) == IF IsLowerCh(c) THEN UpperAlpha[IndexIn(c, LowerAlpha)] ELSE c
DigitVal(c) == IndexIn(c, Digits) - 1
DigitCh(v) == Digits[v + 1]

\* str.lower()
Lower(s) == [i \in 1..Len(s) |-> LowerCh(s[i])]
\* str.replace("_", " ")
ReplaceUnderscore(s) == [i \in 1..Len(s) |-> IF s[i] = "_" THEN " " ELSE s[i]]
\* str.title(): a cased character is upper-cased when the character before
\* it is not cased (or it is the first), and lower-cased otherwise
Title(s) ==
    [i \in 1..Len(s) |->
        IF i = 1 \/ ~IsCased(s[i - 1]) THEN UpperCh(s[i]) ELSE LowerCh(s[i])]
\* col.replace("_", " ").title()
Pretty(col) == Title(ReplaceUnderscore(col))

\* w in s
Contains(s, w) ==
    \E i \in 1..(Len(s) - Len(w) + 1) : SubSeq(s, i, i + Len(w) - 1) = w
EndsWith(s, w) ==
    Len(s) >= Len(w) /\ SubSeq(s, Len(s) - Len(w) + 1, Len(s)) = w
\* \bw\b for a w of word characters
ContainsWord(s, w) ==
    \E i \in 1..(Len(s) - Len(w) + 1) :
        /\ SubSeq(s, i, i + Len(w) - 1) = w
        /\ (i = 1 \/ ~IsWordCh(s[i - 1]))
        /\ (i + Len(w) - 1 = Len(s) \/ ~IsWordCh(s[i + Len(w)]))

\* re.search(pattern, s) for the four shapes of pattern the source uses
ReSearch(p, s) ==
    CASE p.kind = "search" -> Contains(s, p.w)
      [] p.kind = "suffix" -> EndsWith(s, p.w)
      [] p.kind = "exact"  -> s = p.w
      [] p.kind = "word"   -> ContainsWord(s, p.w)

ID_PATTERNS ==
    << [kind |-> "word", w |-> <<"i", "d">>],   \* \bid\b
       [kind |-> "exact", w |-> <<"i", "d">>],   \* ^id$
       [kind |-> "suffix", w |-> <<"_", "i", "d">>],   \* _id$
       [kind |-> "search", w |-> <<"i", "d", "_">>],   \* id_
       [kind |-> "suffix", w |-> <<"k", "e", "y">>],   \* key$
       [kind |-> "suffix", w |-> <<"p", "k">>],   \* pk$
       [kind |-> "search", w |-> <<"p", "r", "i", "m", "a", "r", "y", "_", "k", "e", "y">>],   \* primary_key
       [kind |-> "search", w |-> <<"u", "u", "i", "d">>],   \* uuid
       [kind |-> "search", w |-> <<"s", "e", "r", "i", "a", "l">>],   \* serial
       [kind |-> "search", w |-> <<"i", "n", "d", "e", "x">>] >>   \* index

DATETIME_PATTERNS ==
    << [kind |-> "search", w |-> <<"d", "a", "t", "e">>],   \* date
       [kind |-> "search", w |-> <<"t", "i", "m", "e">>],   \* time
       [kind |-> "search", w |-> <<"t", "i", "m", "e", "s", "t", "a", "m", "p">>],   \* timestamp
       [kind |-> "search", w |-> <<"c", "r", "e", "a", "t", "e", "d">>],   \* created
       [kind |-> "search", w |-> <<"u", "p", "d", "a", "t", "e", "d">>],   \* updated
       [kind |-> "search", w |-> <<"m", "o", "d", "i", "f", "i", "e", "d">>],   \* modified
       [kind |-> "search", w |-> <<"w", "h", "e", "n">>],   \* when
       [kind |-> "suffix", w |-> <<"d", "t">>],   \* dt$
       [kind |-> "suffix", w |-> <<"_", "a", "t">>],   \* _at$
       [kind |-> "search", w |-> <<"d", "a", "y">>],   \* day
       [kind |-> "search", w |-> <<"m", "o", "n", "t", "h">>],   \* month
       [kind |-> "search", w |-> <<"y", "e", "a", "r">>] >>   \* year

CATEGORICAL_PATTERNS ==
    << [kind |-> "search", w |-> <<"c", "a", "t", "e", "g", "o", "r", "y">>],   \* category
       [kind |-> "search", w |-> <<"t", "y", "p", "e">>],   \* type
       [kind |-> "search", w |-> <<"s", "t", "a", "t", "u", "s">>],   \* status
       [kind |-> "search", w |-> <<"s", "t", "a", "t", "e">>],   \* state
       [kind |-> "search", w |-> <<"c", "o", "u", "n", "t", "r", "y">>],   \* country
       [kind |-> "search", w |-> <<"r", "e", "g", "i", "o", "n">>],   \* region
       [kind |-> "search", w |-> <<"c", "i", "t", "y">>],   \* city
       [kind |-> "search", w |-> <<"s", "e", "g", "m", "e", "n", "t">>],   \* segment
       [kind |-> "search", w |-> <<"g", "r", "o", "u", "p">>],   \* group
       [kind |-> "search", w |-> <<"c", "l", "a", "s", "s">>],   \* class
       [kind |-> "search", w |-> <<"k", "i", "n", "d">>],   \* kind
       [kind |-> "search", w |-> <<"l", "a", "b", "e", "l">>],   \* label
       [kind |-> "search", w |-> <<"t", "a", "g">>],   \* tag
       [kind |-> "search", w |-> <<"f", "l", "a", "g">>] >>   \* flag


\* utils.detect_column_pattern
detect_column_pattern(column_name, patterns) ==
    LET column_lower == Lower(column_name)
    IN  \E i \in 1..Len(patterns) : ReSearch(patterns[i], column_lower)

(***************************************************************************)
(* Cells, dates, columns, tables.                                          *)
(*                                                                         *)
(* A cell is null (NaN/None/NaT), a number (int or float storage), a       *)
(* boolean, a string, or a native timestamp.  A date is [y, m, d]; the     *)
(* time of day is not modelled (every timestamp is at midnight).           *)
(***************************************************************************)
NaT == [y |-> 0, m |-> 0, d |-> 0]
Null == [k |-> "null", n |-> 0, s |-> <<>>, t |-> NaT]
Num(v) == [k |-> "num", n |-> v, s |-> <<>>, t |-> NaT]
Bool(b) == [k |-> "bool", n |-> IF b THEN 1 ELSE 0, s |-> <<>>, t |-> NaT]
Str(s) == [k |-> "str", n |-> 0, s |-> s, t |-> NaT]
Stamp(y, m, d) == [k |-> "date", n |-> 0, s |-> <<>>, t |-> [y |-> y, m |-> m, d |-> d]]

IsLeap(y) == (y % 4 = 0 /\ y % 100 # 0) \/ y % 400 = 0
DaysInMonth(y, m) ==
    IF m = 2 THEN (IF IsLeap(y) THEN 29 ELSE 28)
    ELSE IF m \in {4, 6, 9, 11} THEN 30 ELSE 31

\* The text is an ISO date, YYYY-MM-DD, of the calendar.
IsIsoDate(s) ==
    /\ Len(s) = 10
    /\ s[5] = "-" /\ s[8] = "-"
    /\ \A i \in {1, 2, 3, 4, 6, 7, 9, 10} : IsDigitCh(s[i])
    /\ LET y == 1000 * DigitVal(s[1]) + 100 * DigitVal(s[2])
                + 10 * DigitVal(s[3]) + DigitVal(s[4])
           m == 10 * DigitVal(s[6]) + DigitVal(s[7])
           d == 10 * DigitVal(s[9]) + DigitVal(s[10])
       IN  y >= 1 /\ m \in 1..12 /\ d \in 1..DaysInMonth(y, m)
ParseIsoDate(s) ==
    [y |-> 1000 * DigitVal(s[1]) + 100 * DigitVal(s[2])
           + 10 * DigitVal(s[3]) + DigitVal(s[4]),
     m |-> 10 * DigitVal(s[6]) + DigitVal(s[7]),
     d |-> 10 * DigitVal(s[9]) + DigitVal(s[10])]

\* pd.to_datetime of one value: a value that converts.  Numbers are
\* nanoseconds since the epoch; strings are parsed (here: ISO dates; any
\* other text of the model is no date); a boolean is not convertible.
Convertible(c) ==
    CASE c.k = "null" -> TRUE
      [] c.k = "date" -> TRUE
      [] c.k = "num"  -> TRUE
      [] c.k = "str"  -> IsIsoDate(c.s)
      [] c.k = "bool" -> FALSE
\* pd.to_datetime(..., errors='coerce') of one value
Coerce(c) ==
    CASE c.k = "date" -> c.t
      [] c.k = "num"  -> [y |-> 1970, m |-> 1, d |-> 1]
      [] c.k = "str"  -> IF IsIsoDate(c.s) THEN ParseIsoDate(c.s) ELSE NaT
      [] OTHER        -> NaT

\* Series.dropna(), Series.head(k)
DropNa(cells) == SelectSeq(cells, LAMBDA c : c.k # "null")
HeadN(cells, k) == SubSeq(cells, 1, IF Len(cells) < k THEN Len(cells) ELSE k)
\* Series.nunique(): the distinct non-null values
NUnique(cells) == Cardinality({cells[i] : i \in {j \in 1..Len(cells) : cells[j].k # "null"}})

\* len(df)
Rows(t) == IF t = <<>> THEN 0 ELSE Len(t[1].cells)
\* df[column]
Col(t, name) == t[CHOOSE i \in 1..Len(t) : t[i].name = name]
ColumnNames(t) == [i \in 1..Len(t) |-> t[i].name]

(***************************************************************************)
(* schema_inference.infer_column_type                                      *)
(***************************************************************************)
SAMPLE_SIZE == 100

is_numeric_dtype(dtype) == dtype \in {"int64", "uint8", "float64", "bool"}
SignedIntDtypes == {"int64", "int32", "int16", "int8"}
is_datetime64_any_dtype(dtype) == dtype = "datetime64[ns]"
is_string_dtype(dtype) == dtype \in {"object", "string"}
is_bool_dtype(dtype) == dtype = "bool"

\* pd.to_datetime(sample, errors='raise') raises.  The conversion is per
\* value; whether a boolean column is refused for its dtype alone (which
\* matters only for a column with no value to convert) differs between
\* pandas versions: boolDtypeRefused is that choice.
ToDatetimeRaises(col, sample, boolDtypeRefused) ==
    \/ \E i \in 1..Len(sample) : ~Convertible(sample[i])
    \/ (col.dtype = "bool" /\ boolDtypeRefused)

\* the comparison of line 94 written >=
MostlyUnique_AtLeast(nunique, nrows) == nunique * 100 >= 95 * nrows
\* unique_ratio > 0.95, with unique_ratio = nunique / len(df)
MostlyUnique(nunique, nrows) == nunique * 100 > 95 * nrows

\* str(value).str.len(): 'nan' for a missing value
StrLen(c) == IF c.k = "str" THEN Len(c.s) ELSE 3
RECURSIVE SumStrLenTo(_, _)
SumStrLenTo(cells, i) ==
    IF i = 0 THEN 0 ELSE StrLen(cells[i]) + SumStrLenTo(cells, i - 1)
SumStrLen(cells) == SumStrLenTo(cells, Len(cells))

Max2(a, b) == IF a > b THEN a ELSE b
Min2(a, b) == IF a < b THEN a ELSE b

\* the last rule of the string rules with the threshold of the first
StringRole_LowCardinalityBelowHalf(col, nrows) ==
    LET u == NUnique(col.cells)
        n == nrows
        total_len == SumStrLen(col.cells)
        low_ratio == 2 * u < Max2(n, 1)
        short == Len(col.cells) > 0 /\ total_len < 50 * Len(col.cells)
        long == Len(col.cells) > 0 /\ total_len > 100 * Len(col.cells)
    IN  IF /\ low_ratio /\ short
           /\ \/ detect_column_pattern(col.name, CATEGORICAL_PATTERNS)
              \/ (u < 50 /\ 10 * u < n)
        THEN "categorical"
        ELSE IF long THEN "text"
        ELSE IF low_ratio THEN "categorical"
        ELSE "text"

\* lines 113-134: an object/string column that is no date
StringRole(col, nrows) ==
    LET u == NUnique(col.cells)
        n == nrows
        total_len == SumStrLen(col.cells)
        \* unique_ratio < 0.5, unique_ratio = u / max(n, 1)
        low_ratio == 2 * u < Max2(n, 1)
        \* avg_length < 50, avg_length > 100 (the mean of no value is NaN)
        short == Len(col.cells) > 0 /\ total_len < 50 * Len(col.cells)
        long == Len(col.cells) > 0 /\ total_len > 100 * Len(col.cells)
    IN  IF /\ low_ratio /\ short
           /\ \/ detect_column_pattern(col.name, CATEGORICAL_PATTERNS)
              \/ (u < 50 /\ 10 * u < n)
        THEN "categorical"
        ELSE IF long THEN "text"
        ELSE IF 10 * u < 3 * Max2(n, 1) THEN "categorical"
        ELSE "text"

\* lines 86-140: the rules on the storage type
DtypeRole(col, nrows, boolDtypeRefused) ==
    LET dtype == col.dtype
        sample == HeadN(DropNa(col.cells), SAMPLE_SIZE)
    IN  IF is_numeric_dtype(dtype)
        THEN IF dtype \in SignedIntDtypes
             THEN IF nrows = 0 THEN "ZeroDivisionError"
                  ELSE IF MostlyUnique(NUnique(col.cells), nrows) THEN "id"
                  ELSE "numeric"
             ELSE "numeric"
        ELSE IF is_datetime64_any_dtype(dtype) THEN "datetime"
        ELSE IF /\ dtype = "object" /\ Len(sample) > 0
                /\ ~ToDatetimeRaises(col, sample, boolDtypeRefused)
        THEN "datetime"
        ELSE IF dtype = "object" \/ is_string_dtype(dtype)
        THEN StringRole(col, nrows)
        ELSE IF is_bool_dtype(dtype) THEN "categorical"
        ELSE "categorical"

\* infer_column_type without the parse attempt of lines 77-84: the name
\* alone makes the column a datetime
infer_column_type_NameForcesDatetime(col, nrows, boolDtypeRefused) ==
    IF detect_column_pattern(col.name, ID_PATTERNS) THEN "id"
    ELSE IF detect_column_pattern(col.name, DATETIME_PATTERNS) THEN "datetime"
    ELSE DtypeRole(col, nrows, boolDtypeRefused)
\* infer_column_type with the datetime name rule tried before the
\* identifier name rule
infer_column_type_DatetimeNameFirst(col, nrows, boolDtypeRefused) ==
    LET sample == HeadN(DropNa(col.cells), SAMPLE_SIZE)
    IN  IF /\ detect_column_pattern(col.name, DATETIME_PATTERNS)
           /\ ~ToDatetimeRaises(col, sample, boolDtypeRefused)
        THEN "datetime"
        ELSE IF detect_column_pattern(col.name, ID_PATTERNS) THEN "id"
        ELSE DtypeRole(col, nrows, boolDtypeRefused)

\* The role of a column, or "ZeroDivisionError" when the call raises.
infer_column_type(col, nrows, boolDtypeRefused) ==
    LET sample == HeadN(DropNa(col.cells), SAMPLE_SIZE)
    IN  IF detect_column_pattern(col.name, ID_PATTERNS) THEN "id"
        ELSE IF /\ detect_column_pattern(col.name, DATETIME_PATTERNS)
                /\ ~ToDatetimeRaises(col, sample, boolDtypeRefused)
        THEN "datetime"
        ELSE DtypeRole(col, nrows, boolDtypeRefused)

(***************************************************************************)
(* schema_inference.infer_schema                                           *)
(***************************************************************************)
EmptySchema ==
    [id_columns |-> <<>>, datetime_columns |-> <<>>, categorical_columns |-> <<>>,
     numeric_columns |-> <<>>, text_columns |-> <<>>, raw_columns |-> <<>>]

\* the if/elif chain of lines 173-185 with the final else taken by text
\* columns too: a text column is appended to two lists
RoleList_TextAlsoCategorical(t, roles, r) ==
    LET idx == SelectSeq([i \in 1..Len(t) |-> i],
                         LAMBDA i : roles[i] = r \/ (r = "categorical" /\ roles[i] = "text"))
    IN  [j \in 1..Len(idx) |-> t[idx[j]].name]
\* The names of the columns of t with role r, in column order: the list
\* the loop of infer_schema appends to.
RoleList(t, roles, r) ==
    LET idx == SelectSeq([i \in 1..Len(t) |-> i], LAMBDA i : roles[i] = r)
    IN  [j \in 1..Len(idx) |-> t[idx[j]].name]

\* [raised, schema]: raised when infer_column_type raises for a column
infer_schema(t, boolDtypeRefused) ==
    LET nrows == Rows(t)
        roles == [i \in 1..Len(t) |-> infer_column_type(t[i], nrows, boolDtypeRefused)]
    IN  [raised |-> \E i \in 1..Len(t) : roles[i] = "ZeroDivisionError",
         schema |->
            [id_columns |-> RoleList(t, roles, "id"),
             datetime_columns |-> RoleList(t, roles, "datetime"),
             categorical_columns |-> RoleList(t, roles, "categorical"),
             numeric_columns |-> RoleList(t, roles, "numeric"),
             text_columns |-> RoleList(t, roles, "text"),
             raw_columns |-> ColumnNames(t)]]

(***************************************************************************)
(* KPI descriptors.                                                        *)
(*                                                                         *)
(* A descriptor (a dict in the source) is a record of the keys the rules   *)
(* set and the consumers dispatch on; a key the rule does not set, or sets *)
(* to None, is the empty text; the keys only some rules set                 *)
(* (group_by_function, percentile) are fields of their descriptors only.   *)
(* The free-text keys (description, logic, insight) and the computed       *)
(* payload are not modelled.                                               *)
(***************************************************************************)
None == <<>>
Kpi(name, category, subcategory, difficulty, sql_function, columns_used, column, group_by) ==
    [name |-> name, category |-> category, subcategory |-> subcategory,
     difficulty |-> difficulty, sql_function |-> sql_function,
     columns_used |-> columns_used, column |-> column, group_by |-> group_by,
     denominator |-> None, status_values |-> <<>>]

\* the concatenation of the lists f[1], .., f[n]
RECURSIVE FlattenTo(_, _)
FlattenTo(f, n) == IF n = 0 THEN <<>> ELSE FlattenTo(f, n - 1) \o f[n]
Flatten(f) == FlattenTo(f, Len(f))

\* the non-null numbers of a numeric column, in row order
Values(col) ==
    LET kept == SelectSeq(col.cells, LAMBDA c : c.k # "null")
    IN  [i \in 1..Len(kept) |-> kept[i].n]
RECURSIVE SumTo(_, _)
SumTo(xs, i) == IF i = 0 THEN 0 ELSE xs[i] + SumTo(xs, i - 1)
\* Series.sum(): missing values are skipped, the sum of nothing is 0
Sum(xs) == SumTo(xs, Len(xs))

(***************************************************************************)
(* kpi_rules.generate_aggregation_kpis                                     *)
(***************************************************************************)
AggregationOfNumeric(col) ==
    LET p == Pretty(col)
    IN  << Kpi(<<"T", "o", "t", "a", "l", " ">> \o p, "aggregation", "sum", "easy", "SUM", <<col>>, col, None),
           Kpi(<<"A", "v", "e", "r", "a", "g", "e", " ">> \o p, "aggregation", "average", "easy", "AVG", <<col>>, col, None),
           Kpi(<<"M", "i", "n", "i", "m", "u", "m", " ">> \o p, "aggregation", "min", "easy", "MIN", <<col>>, col, None),
           Kpi(<<"M", "a", "x", "i", "m", "u", "m", " ">> \o p, "aggregation", "max", "easy", "MAX", <<col>>, col, None) >>

generate_aggregation_kpis(s, t) ==
    Flatten([i \in 1..Len(s.numeric_columns) |-> AggregationOfNumeric(s.numeric_columns[i])])
    \o [i \in 1..Len(s.id_columns) |->
           Kpi(<<"T", "o", "t", "a", "l", " ", "C", "o", "u", "n", "t", " ", "o", "f", " ">> \o Pretty(s.id_columns[i]), "aggregation",
               "count_distinct", "easy", "COUNT_DISTINCT",
               <<s.id_columns[i]>>, s.id_columns[i], None)]
    \o (IF Rows(t) > 0
        THEN <<Kpi(<<"T", "o", "t", "a", "l", " ", "R", "e", "c", "o", "r", "d", "s">>, "aggregation", "count", "easy", "COUNT",
                   <<>>, None, None)>>
        ELSE <<>>)

(***************************************************************************)
(* kpi_rules.generate_time_series_kpis                                     *)
(***************************************************************************)
\* every date of the sample in a year of its own makes a year column
LikelyYearColumn_OneDatePerYear(is_year_column, unique_years, unique_days) ==
    is_year_column \/ unique_years = unique_days
\* line 147
LikelyYearColumn(is_year_column, unique_years, unique_days) ==
    is_year_column \/ (unique_years <= 2 /\ unique_days <= 2)

\* pd.to_datetime(sample, errors='coerce') raises: a value that is no
\* date becomes NaT; it is the boolean storage type that is refused
CoerceRaises(col, sample) == col.dtype = "bool" /\ Len(sample) > 0

\* lines 130-159: "year", "month" or "day"
TimeGranularity(datetime_col, t) ==
    LET is_year_column == Contains(Lower(datetime_col), <<"y", "e", "a", "r">>)
        sample == HeadN(DropNa(Col(t, datetime_col).cells), SAMPLE_SIZE)
        coerced == [i \in 1..Len(sample) |-> Coerce(sample[i])]
        sample_dates == SelectSeq(coerced, LAMBDA d : d # NaT)
        unique_years == Cardinality({sample_dates[i].y : i \in 1..Len(sample_dates)})
        unique_days == Cardinality({sample_dates[i] : i \in 1..Len(sample_dates)})
    IN  IF CoerceRaises(Col(t, datetime_col), sample)
        THEN IF is_year_column THEN "year" ELSE "day"
        ELSE IF Len(sample_dates) > 0
        THEN IF LikelyYearColumn(is_year_column, unique_years, unique_days) THEN "year"
             ELSE IF 10 * unique_days < Len(sample_dates) THEN "month"
             ELSE "day"
        ELSE "day"

PerYear(num_col, datetime_col) ==
    Kpi(Pretty(num_col) \o <<" ", "p", "e", "r", " ", "Y", "e", "a", "r">>, "time_series", "yearly", "medium", "SUM",
        <<num_col, datetime_col>>, num_col, datetime_col) @@ [group_by_function |-> "YEAR"]
PerMonth(num_col, datetime_col) ==
    Kpi(Pretty(num_col) \o <<" ", "p", "e", "r", " ", "M", "o", "n", "t", "h">>, "time_series", "monthly", "medium", "SUM",
        <<num_col, datetime_col>>, num_col, datetime_col) @@ [group_by_function |-> "YEAR_MONTH"]
PerDay(num_col, datetime_col) ==
    Kpi(Pretty(num_col) \o <<" ", "p", "e", "r", " ", "D", "a", "y">>, "time_series", "daily", "medium", "SUM",
        <<num_col, datetime_col>>, num_col, datetime_col) @@ [group_by_function |-> "DATE"]

\* the month branch emitting per-Month and then per-Day
TimeSeriesOfNumeric_MonthThenDay(num_col, datetime_col, time_granularity) ==
    IF time_granularity = "year"
    THEN <<PerYear(num_col, datetime_col), PerMonth(num_col, datetime_col)>>
    ELSE IF time_granularity = "month"
    THEN <<PerMonth(num_col, datetime_col), PerDay(num_col, datetime_col)>>
    ELSE <<PerDay(num_col, datetime_col), PerMonth(num_col, datetime_col)>>
\* lines 161-250
TimeSeriesOfNumeric(num_col, datetime_col, time_granularity) ==
    IF time_granularity = "year"
    THEN <<PerYear(num_col, datetime_col), PerMonth(num_col, datetime_col)>>
    ELSE IF time_granularity = "month"
    THEN <<PerMonth(num_col, datetime_col), PerYear(num_col, datetime_col)>>
    ELSE <<PerDay(num_col, datetime_col), PerMonth(num_col, datetime_col)>>

\* lines 252-295
TimeSeriesOfId(id_col, datetime_col, time_granularity) ==
    IF time_granularity = "year"
    THEN Kpi(<<"N", "e", "w", " ">> \o Pretty(id_col) \o <<" ", "p", "e", "r", " ", "Y", "e", "a", "r">>, "time_series", "yearly",
             "medium", "COUNT_DISTINCT", <<id_col, datetime_col>>, id_col, datetime_col) @@ [group_by_function |-> "YEAR"]
    ELSE IF time_granularity = "month"
    THEN Kpi(<<"N", "e", "w", " ">> \o Pretty(id_col) \o <<" ", "p", "e", "r", " ", "M", "o", "n", "t", "h">>, "time_series", "monthly",
             "medium", "COUNT_DISTINCT", <<id_col, datetime_col>>, id_col, datetime_col) @@ [group_by_function |-> "YEAR_MONTH"]
    ELSE Kpi(<<"N", "e", "w", " ">> \o Pretty(id_col) \o <<" ", "p", "e", "r", " ", "D", "a", "y">>, "time_series", "daily",
             "medium", "COUNT_DISTINCT", <<id_col, datetime_col>>, id_col, datetime_col) @@ [group_by_function |-> "DATE"]

\* the loop of line 253 over every Identifier column
generate_time_series_kpis_EveryIdColumn(s, t) ==
    IF s.datetime_columns = <<>> THEN <<>>
    ELSE LET datetime_col == s.datetime_columns[1]
             time_granularity == TimeGranularity(datetime_col, t)
         IN  Flatten([i \in 1..Len(s.numeric_columns) |->
                         TimeSeriesOfNumeric(s.numeric_columns[i], datetime_col,
                                             time_granularity)])
             \o [i \in 1..Len(s.id_columns) |->
                    TimeSeriesOfId(s.id_columns[i], datetime_col, time_granularity)]
\* lines 107-297
generate_time_series_kpis(s, t) ==
    IF s.datetime_columns = <<>> THEN <<>>
    ELSE LET datetime_col == s.datetime_columns[1]
             time_granularity == TimeGranularity(datetime_col, t)
         IN  Flatten([i \in 1..Len(s.numeric_columns) |->
                         TimeSeriesOfNumeric(s.numeric_columns[i], datetime_col,
                                             time_granularity)])
             \o [i \in 1..Len(HeadN(s.id_columns, 1)) |->
                    TimeSeriesOfId(s.id_columns[i], datetime_col, time_granularity)]

(***************************************************************************)
(* kpi_rules.generate_category_breakdown_kpis                              *)
(***************************************************************************)
BreakdownOfPair(num_col, cat_col) ==
    << Kpi(Pretty(num_col) \o <<" ", "b", "y", " ">> \o Pretty(cat_col), "category_breakdown",
           "sum_by_category", "medium", "SUM", <<num_col, cat_col>>, num_col, cat_col),
       Kpi(<<"A", "v", "e", "r", "a", "g", "e", " ">> \o Pretty(num_col) \o <<" ", "b", "y", " ">> \o Pretty(cat_col),
           "category_breakdown", "avg_by_category", "medium", "AVG",
           <<num_col, cat_col>>, num_col, cat_col) >>

BreakdownOfCategory(cat_col, numeric_cols) ==
    Flatten([i \in 1..Len(numeric_cols) |-> BreakdownOfPair(numeric_cols[i], cat_col)])
    \o <<Kpi(<<"C", "o", "u", "n", "t", " ", "b", "y", " ">> \o Pretty(cat_col), "category_breakdown", "count_by_category",
             "easy", "COUNT", <<cat_col>>, None, cat_col)>>

generate_category_breakdown_kpis(s, t) ==
    Flatten([i \in 1..Len(s.categorical_columns) |->
                BreakdownOfCategory(s.categorical_columns[i], s.numeric_columns)])

(***************************************************************************)
(* kpi_rules.generate_conversion_kpis                                      *)
(***************************************************************************)
status_patterns == <<<<"s", "t", "a", "t", "u", "s">>, <<"s", "t", "a", "t", "e">>, <<"s", "t", "a", "g", "e">>, <<"p", "h", "a", "s", "e">>, <<"t", "y", "p", "e">>>>
IsStatusColumn(col) ==
    LET col_lower == Lower(col)
    IN  \E i \in 1..Len(status_patterns) : Contains(col_lower, status_patterns[i])

\* the distinct values in order of last appearance
Unique_LastAppearance(cells) ==
    LET kept == DropNa(cells)
        lasts == SelectSeq([i \in 1..Len(kept) |-> i],
                           LAMBDA i : \A j \in (i + 1)..Len(kept) : kept[j] # kept[i])
    IN  [i \in 1..Len(lasts) |-> kept[lasts[i]]]
\* Series.dropna().unique(): the distinct values in order of first appearance
Unique(cells) ==
    LET kept == DropNa(cells)
        firsts == SelectSeq([i \in 1..Len(kept) |-> i],
                            LAMBDA i : \A j \in 1..(i - 1) : kept[j] # kept[i])
    IN  [i \in 1..Len(firsts) |-> kept[firsts[i]]]

ConversionOfStatus(status_col, t) ==
    LET cells == Col(t, status_col).cells
        values == Unique(cells)
    IN  <<Kpi(Pretty(status_col) \o <<" ", "D", "i", "s", "t", "r", "i", "b", "u", "t", "i", "o", "n">>, "conversion", "distribution",
              "easy", "COUNT", <<status_col>>, None, status_col)>>
        \o (IF NUnique(cells) = 2 /\ Len(values) = 2
            THEN <<[Kpi(Pretty(status_col) \o <<" ", "R", "a", "t", "e">>, "conversion", "rate", "medium",
                        "RATE", <<status_col>>, status_col, None)
                    EXCEPT !.status_values = [i \in 1..2 |-> values[i].s]]>>
            ELSE <<>>)

generate_conversion_kpis(s, t) ==
    LET status_cols == SelectSeq(s.categorical_columns, IsStatusColumn)
    IN  Flatten([i \in 1..Len(status_cols) |-> ConversionOfStatus(status_cols[i], t)])

(***************************************************************************)
(* kpi_rules.generate_advanced_kpis                                        *)
(***************************************************************************)
PercentilesOf(col) ==
    LET p == Pretty(col)
    IN  << Kpi(<<"M", "e", "d", "i", "a", "n", " ">> \o p, "statistical", "percentile", "medium", "MEDIAN",
               <<col>>, col, None) @@ [percentile |-> 50],
           Kpi(<<"2", "5", "t", "h", " ", "P", "e", "r", "c", "e", "n", "t", "i", "l", "e", " ", "o", "f", " ">> \o p, "statistical", "percentile", "medium",
               "PERCENTILE", <<col>>, col, None) @@ [percentile |-> 25],
           Kpi(<<"7", "5", "t", "h", " ", "P", "e", "r", "c", "e", "n", "t", "i", "l", "e", " ", "o", "f", " ">> \o p, "statistical", "percentile", "medium",
               "PERCENTILE", <<col>>, col, None) @@ [percentile |-> 75] >>

\* the ratio loop without its guard
SumNonZero_Unguarded(col1, t) == TRUE
\* df[col1].sum() != 0
SumNonZero(col1, t) == Sum(Values(Col(t, col1))) # 0

Ratio(col1, col2) ==
    [Kpi(Pretty(col2) \o <<" ", "t", "o", " ">> \o Pretty(col1) \o <<" ", "R", "a", "t", "i", "o">>, "ratio",
         "numeric_ratio", "medium", "RATIO", <<col1, col2>>, col2, None)
     EXCEPT !.denominator = col1]

\* the pairs (col1, col2) of distinct columns, in both orders
RatiosOf_BothOrders(numeric_cols, i, t) ==
    LET others == SelectSeq([j \in 1..Len(numeric_cols) |-> j],
                            LAMBDA j : j # i /\ SumNonZero(numeric_cols[i], t))
    IN  [k \in 1..Len(others) |-> Ratio(numeric_cols[i], numeric_cols[others[k]])]
\* lines 468-483: the pairs (col1, col2) with col1 before col2
RatiosOf(numeric_cols, i, t) ==
    LET later == SelectSeq([j \in 1..Len(numeric_cols) |-> j],
                           LAMBDA j : j > i /\ SumNonZero(numeric_cols[i], t))
    IN  [k \in 1..Len(later) |-> Ratio(numeric_cols[i], numeric_cols[later[k]])]

Growth(num_col, datetime_col) ==
    Kpi(Pretty(num_col) \o <<" ", "G", "r", "o", "w", "t", "h", " ", "R", "a", "t", "e">>, "growth", "pct_change", "advanced",
        "GROWTH_RATE", <<num_col, datetime_col>>, num_col, None)

generate_advanced_kpis(s, t) ==
    LET numeric_cols == s.numeric_columns
        datetime_cols == s.datetime_columns
        first2 == HeadN(numeric_cols, 2)
    IN  Flatten([i \in 1..Len(numeric_cols) |-> PercentilesOf(numeric_cols[i])])
        \o (IF Len(numeric_cols) >= 2
            THEN Flatten([i \in 1..Len(numeric_cols) |-> RatiosOf(numeric_cols, i, t)])
            ELSE <<>>)
        \o (IF datetime_cols # <<>> /\ numeric_cols # <<>>
            THEN [i \in 1..Len(first2) |-> Growth(first2[i], datetime_cols[1])]
            ELSE <<>>)

(***************************************************************************)
(* Statistics helpers (pandas / scipy), in exact arithmetic.               *)
(***************************************************************************)
Abs(x) == IF x < 0 THEN -x ELSE x

\* xs in ascending order
SortAsc(xs) ==
    [k \in 1..Len(xs) |->
        CHOOSE v \in {xs[i] : i \in 1..Len(xs)} :
            /\ Cardinality({i \in 1..Len(xs) : xs[i] < v}) < k
            /\ k <= Cardinality({i \in 1..Len(xs) : xs[i] <= v})]

\* 4 * Series.quantile(q / 4) of the sorted, non-empty xs (linear
\* interpolation between the two neighbouring order statistics)
Quantile4(sorted, q) ==
    LET pos == q * (Len(sorted) - 1)
        lo == pos \div 4
        r == pos % 4
    IN  IF r = 0 THEN 4 * sorted[lo + 1]
        ELSE (4 - r) * sorted[lo + 1] + r * sorted[lo + 2]

\* n * n * Σ (x - mean)^2 and n^3 * Σ (x - mean)^3, with d = n * x - Σ x
RECURSIVE SumPowDevTo(_, _, _, _)
SumPowDevTo(xs, total, p, i) ==
    IF i = 0 THEN 0
    ELSE LET d == Len(xs) * xs[i] - total
         IN  (IF p = 2 THEN d * d ELSE d * d * d) + SumPowDevTo(xs, total, p, i - 1)
SumSqDev(xs) == SumPowDevTo(xs, Sum(xs), 2, Len(xs))
SumCubeDev(xs) == SumPowDevTo(xs, Sum(xs), 3, Len(xs))

\* Natural numbers beyond the machine word, as base-1000 digits, least
\* significant first: the products below do not fit 32 bits.
BigBase == 1000
ToBig(n) == [k \in 1..4 |-> (n \div (BigBase ^ (k - 1))) % BigBase]
RECURSIVE CarryFrom(_, _, _)
CarryFrom(raw, i, c) ==
    IF i > Len(raw) THEN <<>>
    ELSE LET v == raw[i] + c
         IN  <<v % BigBase>> \o CarryFrom(raw, i + 1, v \div BigBase)
RECURSIVE ConvTo(_, _, _, _)
ConvTo(a, b, k, i) ==
    IF i = 0 THEN 0
    ELSE (IF k + 1 - i \in 1..Len(b) THEN a[i] * b[k + 1 - i] ELSE 0)
         + ConvTo(a, b, k, i - 1)
BigMul(a, b) ==
    LET raw == [k \in 1..(Len(a) + Len(b)) |-> ConvTo(a, b, k, Len(a))]
    IN  CarryFrom(raw, 1, 0)
BigDigit(a, k) == IF k <= Len(a) THEN a[k] ELSE 0
BigLess(a, b) ==
    \E k \in 1..Max2(Len(a), Len(b)) :
        /\ BigDigit(a, k) < BigDigit(b, k)
        /\ \A j \in (k + 1)..Max2(Len(a), Len(b)) : BigDigit(a, j) = BigDigit(b, j)

\* datetime.toordinal() and Series.dt.dayofweek (Monday = 0)
RECURSIVE DaysBeforeMonth(_, _)
DaysBeforeMonth(y, m) ==
    IF m = 1 THEN 0 ELSE DaysBeforeMonth(y, m - 1) + DaysInMonth(y, m - 1)
Ordinal(date) ==
    LET y1 == date.y - 1
    IN  365 * y1 + (y1 \div 4) - (y1 \div 100) + (y1 \div 400)
        + DaysBeforeMonth(date.y, date.m) + date.d
DayOfWeek(date) == (Ordinal(date) + 6) % 7

RECURSIVE Gcd(_, _)
Gcd(a, b) == IF b = 0 THEN a ELSE Gcd(b, a % b)
Lcm(a, b) == (a \div Gcd(a, b)) * b
RECURSIVE LcmTo(_, _)
LcmTo(cs, i) == IF i = 0 THEN 1 ELSE Lcm(LcmTo(cs, i - 1), cs[i])

\* text order of str (code points)
Code(c) == IndexIn(c, CodeOrder)
StrLess(a, b) ==
    \E k \in 1..(Min2(Len(a), Len(b)) + 1) :
        /\ \A j \in 1..(k - 1) : a[j] = b[j]
        /\ \/ (k = Len(a) + 1 /\ k <= Len(b))
           \/ (k <= Len(a) /\ k <= Len(b) /\ Code(a[k]) < Code(b[k]))

(***************************************************************************)
(* The rows of a table kept by                                             *)
(*   df_copy[c] = pd.to_datetime(df_copy[c], errors='coerce')              *)
(*   df_copy = df_copy.dropna(subset=[c])                                  *)
(* as the sequence of their row numbers.                                   *)
(***************************************************************************)
DatedRows(t, datetime_col) ==
    LET cells == Col(t, datetime_col).cells
    IN  SelectSeq([i \in 1..Len(cells) |-> i], LAMBDA i : Coerce(cells[i]) # NaT)

\* the numbers of column num_col at the rows rws, missing ones skipped
ValuesAt(t, num_col, rws) ==
    LET cells == Col(t, num_col).cells
        kept == SelectSeq(rws, LAMBDA i : cells[i].k # "null")
    IN  [j \in 1..Len(kept) |-> cells[kept[j]].n]

(***************************************************************************)
(* creative_kpis.detect_anomalies_kpis                                     *)
(***************************************************************************)
\* (np.abs(zscore(data)) > 3).sum(): zscore divides by the population
\* standard deviation; constant data gives nan, which is not > 3
ZScoreAnomalies(xs) ==
    LET n == Len(xs)
        total == Sum(xs)
        ssd == SumSqDev(xs)
    IN  Cardinality({i \in 1..n :
            n * (n * xs[i] - total) * (n * xs[i] - total) > 9 * ssd})

\* lines 53-56: the values outside [Q1 - 1.5 IQR, Q3 + 1.5 IQR]
IqrOutliers(xs) ==
    IF xs = <<>> THEN 0
    ELSE LET sorted == SortAsc(xs)
             q1 == Quantile4(sorted, 1)
             q3 == Quantile4(sorted, 3)
         IN  Cardinality({i \in 1..Len(xs) :
                 8 * xs[i] < 5 * q1 - 3 * q3 \/ 8 * xs[i] > 5 * q3 - 3 * q1})

\* outlier_pct >= 5 in the place of outlier_pct > 5
OutlierShareMaterial_AtLeast(outliers, nrows) == nrows > 0 /\ outliers * 100 >= 5 * nrows
\* outlier_pct > 5, outlier_pct = outliers / len(df) * 100 (nan for no row)
OutlierShareMaterial(outliers, nrows) == nrows > 0 /\ outliers * 100 > 5 * nrows

AnomaliesOf(col, t) ==
    LET xs == Values(Col(t, col))
        p == Pretty(col)
    IN  (IF ZScoreAnomalies(xs) > 0
         THEN <<Kpi(<<"A", "n", "o", "m", "a", "l", "y", " ", "R", "a", "t", "e", " ", "i", "n", " ">> \o p, "anomaly_detection", "zscore_anomalies",
                    "advanced", "ANOMALY_RATE", <<col>>, col, None)>>
         ELSE <<>>)
        \o (IF OutlierShareMaterial(IqrOutliers(xs), Rows(t))
            THEN <<Kpi(<<"O", "u", "t", "l", "i", "e", "r", " ", "D", "e", "t", "e", "c", "t", "i", "o", "n", " ", "i", "n", " ">> \o p, "anomaly_detection", "iqr_outliers",
                       "advanced", "OUTLIER_DETECTION", <<col>>, col, None)>>
            ELSE <<>>)

detect_anomalies_kpis(t, s) ==
    Flatten([i \in 1..Len(s.numeric_columns) |-> AnomaliesOf(s.numeric_columns[i], t)])

(***************************************************************************)
(* creative_kpis.detect_seasonality_kpis                                   *)
(***************************************************************************)
MIN_SEASONALITY_ROWS == 30

\* The variance (ddof = 1) of the group means exceeds num/den of the mean
\* of the group means; sums[g], counts[g] are the sum and the number of
\* values of group g.  With L the least common multiple of the counts and
\* M[g] = L * mean[g], T = Σ M[g], k groups:
\*   var > num/den * mean  <=>  den * Σ (k M[g] - T)^2 > num * T * k (k-1) L
RECURSIVE SumSqSpreadTo(_, _, _)
SumSqSpreadTo(ms, total, i) ==
    IF i = 0 THEN 0
    ELSE (Len(ms) * ms[i] - total) * (Len(ms) * ms[i] - total)
         + SumSqSpreadTo(ms, total, i - 1)
MeansVaryMoreThan(sums, counts, num, den) ==
    LET k == Len(sums)
        l == LcmTo(counts, k)
        ms == [g \in 1..k |-> sums[g] * (l \div counts[g])]
        total == Sum(ms)
    IN  k >= 2 /\ den * SumSqSpreadTo(ms, total, k) > num * total * k * (k - 1) * l

\* df_copy.groupby(key)[num_col].mean() for the rows rws, key(date) being
\* the day of the week or the month: the groups that hold a value
GroupSums(t, num_col, datetime_col, rws, byMonth) ==
    LET dates == Col(t, datetime_col).cells
        cells == Col(t, num_col).cells
        KeyOf(i) == IF byMonth THEN Coerce(dates[i]).m ELSE DayOfWeek(Coerce(dates[i]))
        valued == SelectSeq(rws, LAMBDA i : cells[i].k # "null")
        keys == SortAsc([j \in 1..Len(valued) |-> KeyOf(valued[j])])
        firsts == SelectSeq([j \in 1..Len(keys) |-> j],
                            LAMBDA j : j = 1 \/ keys[j - 1] # keys[j])
        Members(g) == SelectSeq(valued, LAMBDA i : KeyOf(i) = keys[firsts[g]])
    IN  [sums |-> [g \in 1..Len(firsts) |-> Sum(ValuesAt(t, num_col, Members(g)))],
         counts |-> [g \in 1..Len(firsts) |-> Len(Members(g))]]

SeasonalityOf(num_col, datetime_col, t, rws) ==
    LET daily == GroupSums(t, num_col, datetime_col, rws, FALSE)
        monthly == GroupSums(t, num_col, datetime_col, rws, TRUE)
        p == Pretty(num_col)
    IN  (IF MeansVaryMoreThan(daily.sums, daily.counts, 1, 10)
         THEN <<Kpi(<<"W", "e", "e", "k", "l", "y", " ", "P", "a", "t", "t", "e", "r", "n", " ", "i", "n", " ">> \o p, "pattern_detection", "weekly_seasonality",
                    "advanced", "WEEKLY_PATTERN", <<num_col, datetime_col>>, num_col, None)>>
         ELSE <<>>)
        \o (IF MeansVaryMoreThan(monthly.sums, monthly.counts, 3, 20)
            THEN <<Kpi(<<"M", "o", "n", "t", "h", "l", "y", " ", "S", "e", "a", "s", "o", "n", "a", "l", "i", "t", "y", " ", "i", "n", " ">> \o p, "pattern_detection",
                       "monthly_seasonality", "advanced", "MONTHLY_PATTERN",
                       <<num_col, datetime_col>>, num_col, None)>>
            ELSE <<>>)

\* the minimum tested on the rows of the table, dated or not
detect_seasonality_kpis_CountsAllRows(t, s) ==
    IF s.datetime_columns = <<>> \/ s.numeric_columns = <<>> THEN <<>>
    ELSE LET datetime_col == s.datetime_columns[1]
             rws == DatedRows(t, datetime_col)
             first2 == HeadN(s.numeric_columns, 2)
         IN  IF Rows(t) < MIN_SEASONALITY_ROWS THEN <<>>
             ELSE Flatten([i \in 1..Len(first2) |->
                              SeasonalityOf(first2[i], datetime_col, t, rws)])
\* lines 78-156
detect_seasonality_kpis(t, s) ==
    IF s.datetime_columns = <<>> \/ s.numeric_columns = <<>> THEN <<>>
    ELSE LET datetime_col == s.datetime_columns[1]
             rws == DatedRows(t, datetime_col)
             first2 == HeadN(s.numeric_columns, 2)
         IN  IF Len(rws) < MIN_SEASONALITY_ROWS THEN <<>>
             ELSE Flatten([i \in 1..Len(first2) |->
                              SeasonalityOf(first2[i], datetime_col, t, rws)])

(***************************************************************************)
(* creative_kpis.generate_comparative_kpis                                 *)
(*                                                                         *)
(* A sub-rule result is [raised, kpis]: whether the call ended in an       *)
(* exception, and the descriptors it returned otherwise.                   *)
(***************************************************************************)
\* the keys of df.groupby(cat_col): the distinct non-null values, sorted
GroupKeys(t, cat_col) ==
    LET cells == DropNa(Col(t, cat_col).cells)
        keyset == {cells[i].s : i \in 1..Len(cells)}
    IN  [k \in 1..Cardinality(keyset) |->
            CHOOSE v \in keyset :
                Cardinality({u \in keyset : StrLess(u, v)}) = k - 1]

\* df.groupby(cat_col)[num_col].mean() as sums and counts per key; a group
\* without a value has mean nan
GroupMeans(t, cat_col, num_col, keys) ==
    LET cats == Col(t, cat_col).cells
        Members(g) == SelectSeq([i \in 1..Len(cats) |-> i],
                                LAMBDA i : cats[i].k # "null" /\ cats[i].s = keys[g])
    IN  [g \in 1..Len(keys) |->
            LET xs == ValuesAt(t, num_col, Members(g))
            IN  [sum |-> Sum(xs), count |-> Len(xs)]]

\* Series.idxmax(): the first key of the largest mean, nan means skipped
IdxMax(means) ==
    LET valued == {g \in 1..Len(means) : means[g].count > 0}
        Greater(a, b) == a.sum * b.count > b.sum * a.count
    IN  CHOOSE g \in valued :
            \A h \in valued : /\ ~Greater(means[h], means[g])
                              /\ (h < g => Greater(means[g], means[h]))

\* lines 177-224 for one pair.  idxmax of no group at all raises
\* ValueError; idxmax of groups that are all nan raises or returns nan
\* depending on the pandas version (allNaRaises).
ComparativeOf(num_col, cat_col, t, allNaRaises) ==
    LET keys == GroupKeys(t, cat_col)
        means == GroupMeans(t, cat_col, num_col, keys)
        allNa == \A g \in 1..Len(keys) : means[g].count = 0
        top_category == IF allNa THEN <<"n", "a", "n">> ELSE keys[IdxMax(means)]
        p == Pretty(num_col)
    IN  IF keys = <<>> \/ (allNa /\ allNaRaises)
        THEN [raised |-> TRUE, kpis |-> <<>>]
        ELSE [raised |-> FALSE,
              kpis |-> << Kpi(p \o <<" ", "P", "e", "r", "f", "o", "r", "m", "a", "n", "c", "e", ":", " ">> \o top_category \o <<" ", "v", "s", " ", "A", "v", "e", "r", "a", "g", "e">>,
                              "comparative_analysis", "vs_average", "medium",
                              "COMPARATIVE", <<num_col, cat_col>>, num_col, cat_col),
                          Kpi(p \o <<" ", "P", "e", "r", "f", "o", "r", "m", "a", "n", "c", "e", " ", "G", "a", "p">>, "comparative_analysis",
                              "performance_gap", "medium", "PERFORMANCE_GAP",
                              <<num_col, cat_col>>, num_col, cat_col) >>]

generate_comparative_kpis(t, s, allNaRaises) ==
    LET cat_cols == HeadN(s.categorical_columns, 2)
        numeric_cols == s.numeric_columns
        pairs == Flatten([c \in 1..Len(cat_cols) |->
                             [n \in 1..Len(numeric_cols) |->
                                 ComparativeOf(numeric_cols[n], cat_cols[c], t,
                                               allNaRaises)]])
    IN  IF \E i \in 1..Len(pairs) : pairs[i].raised
        THEN [raised |-> TRUE, kpis |-> <<>>]
        ELSE [raised |-> FALSE, kpis |-> Flatten([i \in 1..Len(pairs) |-> pairs[i].kpis])]

(***************************************************************************)
(* creative_kpis.detect_distribution_patterns_kpis                         *)
(***************************************************************************)
MIN_DISTRIBUTION_VALUES == 10

\* abs(stats.skew(data)) > 1, skew = m3 / m2^1.5 with the biased moments:
\* n * (Σ d^3)^2 > (Σ d^2)^3 for d = n * x - Σ x
Skewed(xs) ==
    LET d2 == ToBig(SumSqDev(xs))
        d3 == ToBig(Abs(SumCubeDev(xs)))
        d2sq == BigMul(d2, d2)
        d3sq == BigMul(d3, d3)
        cube == BigMul(d2sq, d2)
        scaled == BigMul(ToBig(Len(xs)), d3sq)
    IN  BigLess(cube, scaled)

\* lines 267-273: the share of the largest int(len * 0.2) values in the sum
Concentrated(xs) ==
    LET sorted == SortAsc(xs)
        n == Len(xs)
        top_20_pct_count == n \div 5
        top_20_pct_value == Sum(SubSeq(sorted, n - top_20_pct_count + 1, n))
        total_value == Sum(xs)
    IN  \/ (total_value > 0 /\ 100 * top_20_pct_value > 60 * total_value)
        \/ (total_value < 0 /\ 100 * top_20_pct_value < 60 * total_value)

\* lines 289-290: std (ddof = 1) / mean * 100 > 50
HighlyVariable(xs) ==
    Sum(xs) > 0 /\ 4 * SumSqDev(xs) > (Len(xs) - 1) * Sum(xs) * Sum(xs)

DistributionOf(col, t) ==
    LET data == Values(Col(t, col))
        p == Pretty(col)
    IN  IF Len(data) < MIN_DISTRIBUTION_VALUES THEN <<>>
        ELSE (IF Skewed(data)
              THEN <<Kpi(p \o <<" ", "D", "i", "s", "t", "r", "i", "b", "u", "t", "i", "o", "n", " ", "S", "k", "e", "w", "n", "e", "s", "s">>, "distribution_analysis",
                         "skewness", "advanced", "SKEWNESS", <<col>>, col, None)>>
              ELSE <<>>)
             \o (IF Concentrated(data)
                 THEN <<Kpi(p \o <<" ", "C", "o", "n", "c", "e", "n", "t", "r", "a", "t", "i", "o", "n", " ", "(", "8", "0", "/", "2", "0", " ", "R", "u", "l", "e", ")">>, "distribution_analysis",
                            "pareto", "advanced", "CONCENTRATION", <<col>>, col, None)>>
                 ELSE <<>>)
             \o (IF HighlyVariable(data)
                 THEN <<Kpi(p \o <<" ", "V", "a", "r", "i", "a", "b", "i", "l", "i", "t", "y">>, "distribution_analysis",
                            "variability", "medium", "VARIABILITY", <<col>>, col, None)>>
                 ELSE <<>>)

detect_distribution_patterns_kpis(t, s) ==
    Flatten([i \in 1..Len(s.numeric_columns) |-> DistributionOf(s.numeric_columns[i], t)])

(***************************************************************************)
(* creative_kpis.detect_trend_breakpoints_kpis                             *)
(***************************************************************************)
MIN_TREND_ROWS == 10

\* .sort_values(datetime_col): the dated rows in date order.  Rows of equal
\* date keep their order: numpy's default sort is an insertion sort up to
\* 16 elements, and the larger input tables hold no date twice.
SortedByDate(t, datetime_col) ==
    LET rws == DatedRows(t, datetime_col)
        cells == Col(t, datetime_col).cells
        Key(i) == Ordinal(Coerce(cells[rws[i]]))
        keys == [i \in 1..Len(rws) |-> Key(i)]
        Rank(i) == Cardinality({j \in 1..Len(rws) :
                        keys[j] < keys[i] \/ (keys[j] = keys[i] /\ j <= i)})
    IN  [k \in 1..Len(rws) |-> rws[CHOOSE i \in 1..Len(rws) : Rank(i) = k]]

\* the comparison of line 342 written >=
TrendChanged_AtLeast(first, second) ==
    LET s1 == Sum(first)
        s2 == Sum(second)
        c1 == Len(first)
        c2 == Len(second)
    IN  /\ c1 > 0 /\ c2 > 0 /\ s1 # 0
        /\ 10 * Abs(s2 * c1 - s1 * c2) >= Abs(s1) * c2
\* lines 336-342: the mean of the second half differs from the mean of
\* the first half by more than 10% of the latter
TrendChanged(first, second) ==
    LET s1 == Sum(first)
        s2 == Sum(second)
        c1 == Len(first)
        c2 == Len(second)
    IN  /\ c1 > 0 /\ c2 > 0 /\ s1 # 0
        /\ 10 * Abs(s2 * c1 - s1 * c2) > Abs(s1) * c2

TrendOf(num_col, datetime_col, t, sorted) ==
    LET midpoint == Len(sorted) \div 2
        first_half == ValuesAt(t, num_col, SubSeq(sorted, 1, midpoint))
        second_half == ValuesAt(t, num_col, SubSeq(sorted, midpoint + 1, Len(sorted)))
    IN  IF TrendChanged(first_half, second_half)
        THEN <<Kpi(Pretty(num_col) \o <<" ", "T", "r", "e", "n", "d", " ", "C", "h", "a", "n", "g", "e">>, "trend_analysis", "breakpoint",
                   "advanced", "TREND_CHANGE", <<num_col, datetime_col>>, num_col, None)>>
        ELSE <<>>

detect_trend_breakpoints_kpis(t, s) ==
    IF s.datetime_columns = <<>> \/ s.numeric_columns = <<>> THEN <<>>
    ELSE LET datetime_col == s.datetime_columns[1]
             sorted == SortedByDate(t, datetime_col)
             first2 == HeadN(s.numeric_columns, 2)
         IN  IF Len(sorted) < MIN_TREND_ROWS THEN <<>>
             ELSE Flatten([i \in 1..Len(first2) |->
                              TrendOf(first2[i], datetime_col, t, sorted)])

(***************************************************************************)
(* creative_kpis.generate_creative_kpis                                    *)
(*                                                                         *)
(* The result is [raised, kpis]; kpis is the local list all_kpis when the  *)
(* call ends: returned to the caller, or lost with the frame when a        *)
(* sub-rule raises.                                                        *)
(***************************************************************************)
\* lines 373-390, given the result of the third sub-rule
CreativeFrom(before, comparative, t, s) ==
    IF comparative.raised
    THEN [raised |-> TRUE, kpis |-> before]
    ELSE [raised |-> FALSE,
          kpis |-> before \o comparative.kpis
                   \o detect_distribution_patterns_kpis(t, s)
                   \o detect_trend_breakpoints_kpis(t, s)]

generate_creative_kpis(t, s, allNaRaises) ==
    LET before == detect_anomalies_kpis(t, s) \o detect_seasonality_kpis(t, s)
        comparative == generate_comparative_kpis(t, s, allNaRaises)
    IN  CreativeFrom(before, comparative, t, s)

(***************************************************************************)
(* kpi_rules.generate_kpis                                                 *)
(***************************************************************************)
\* the five rule families with the advanced family run before the
\* conversion family
RuleFamilies_AdvancedBeforeConversion(s, t) ==
    generate_aggregation_kpis(s, t)
    \o generate_time_series_kpis(s, t)
    \o generate_category_breakdown_kpis(s, t)
    \o generate_advanced_kpis(s, t)
    \o generate_conversion_kpis(s, t)
\* lines 518-522: the five rule families of kpi_rules, in order
RuleFamilies(s, t) ==
    generate_aggregation_kpis(s, t)
    \o generate_time_series_kpis(s, t)
    \o generate_category_breakdown_kpis(s, t)
    \o generate_conversion_kpis(s, t)
    \o generate_advanced_kpis(s, t)

\* the creative descriptors appended as they are produced
Concatenation_KeepsPartial(s, t, creative) ==
    RuleFamilies(s, t) \o creative.kpis
\* lines 525-531, with the exception swallowed
Concatenation(s, t, creative) ==
    IF creative.raised THEN RuleFamilies(s, t)
    ELSE RuleFamilies(s, t) \o creative.kpis

\* the last descriptor of every name in the place of the first
Dedup_LastWins(all) ==
    LET keep == SelectSeq([i \in 1..Len(all) |-> i],
                          LAMBDA i : \A j \in (i + 1)..Len(all) : all[j].name # all[i].name)
    IN  [k \in 1..Len(keep) |-> all[keep[k]]]
\* lines 533-541: the first descriptor of every name, in order
Dedup(all) ==
    LET keep == SelectSeq([i \in 1..Len(all) |-> i],
                          LAMBDA i : \A j \in 1..(i - 1) : all[j].name # all[i].name)
    IN  [k \in 1..Len(keep) |-> all[keep[k]]]

\* [all_kpis, unique_kpis, warned]: the list before deduplication, the list
\* returned, and whether the warning was printed
Catalogue(all, warning) ==
    [all_kpis |-> all, unique_kpis |-> Dedup(all), warned |-> warning]

GenerateFrom(s, t, creative) ==
    LET all == Concatenation(s, t, creative)
    IN  Catalogue(all, creative.raised)

generate_kpis(s, t, allNaRaises) ==
    LET creative == generate_creative_kpis(t, s, allNaRaises)
    IN  GenerateFrom(s, t, creative)

(***************************************************************************)
(* The table and the schema of the caller after generate_kpis.             *)
(***************************************************************************)
\* df_copy[datetime_col] = pd.to_datetime(df_copy[datetime_col],
\* errors='coerce'): the column becomes a datetime column, NaT where a
\* value is no date
AssignCoerced(t, datetime_col) ==
    [i \in 1..Len(t) |->
        IF t[i].name = datetime_col
        THEN [name |-> t[i].name, dtype |-> "datetime64[ns]",
              cells |-> [k \in 1..Len(t[i].cells) |->
                            IF Coerce(t[i].cells[k]) = NaT THEN Null
                            ELSE [Null EXCEPT !.k = "date",
                                              !.t = Coerce(t[i].cells[k])]]]
        ELSE t[i]]

\* the seasonality and the trend rule assigning into the caller's table
CallerTable_WithoutCopy(t, s) ==
    IF s.datetime_columns = <<>> \/ s.numeric_columns = <<>> THEN t
    ELSE AssignCoerced(t, s.datetime_columns[1])
\* creative_kpis.py lines 97 and 327: the two rules that assign a column
\* do it in df.copy(); the rules rebind names and build new lists
\* otherwise (slices of the schema lists, the lists of descriptors)
CallerTable(t, s) == t

(***************************************************************************)
(* The state: the table, the schema inferred from it, the KPI catalogue.   *)
(*   pc        "loaded" -> "inferred" | "raised" -> "generated"            *)
(*   all_kpis  generate_kpis' local list before the removal of duplicates  *)
(*   kpis      the catalogue generate_kpis returns                         *)
(*   warned    generate_kpis printed its warning (the creative rules       *)
(*             raised)                                                     *)
(*   sql       the last call of the SQL generator: the descriptors handed  *)
(*             in and the queries returned                                 *)
(* and the state of the host app (app.py):                                 *)
(*   session        st.session_state, key by key                           *)
(*   uploaded_file  the file held by the st.file_uploader widget           *)
(*   run, event     the position of the current run of main() and the      *)
(*                  user action that started it                            *)
(***************************************************************************)
VARIABLES df, schema, pc, all_kpis, kpis, warned, sql, session, uploaded_file, run, event
vars == <<df, schema, pc, all_kpis, kpis, warned, sql, session, uploaded_file, run, event>>
engine == <<df, schema, pc, all_kpis, kpis, warned>>
host == <<session, uploaded_file, run, event>>

\* st.session_state: a key that is not in the session is Absent; the value
\* of 'df' and 'file_name' is the name of the dataset, the value of an
\* analysis key is the name of the dataset it was computed from
Absent == "absent"
AnalysisKeys == {"schema", "schema_summary", "quality_report", "statistical_summary",
                 "insights", "grouped_insights", "kpis", "sql_queries", "table_name"}
SessionKeys == {"df", "file_name"} \cup AnalysisKeys
EmptySession == [key \in SessionKeys |-> Absent]
NoFile == "None"
\* no call of the SQL generator yet
NoSql == [kpis |-> <<>>, queries |-> <<>>]
\* the host app before its first run
HostInit ==
    /\ session = EmptySession
    /\ uploaded_file = NoFile
    /\ run = "idle"
    /\ event = "none"

\* schema = infer_schema(df)
InferSchema ==
    /\ pc = "loaded"
    /\ \E boolDtypeRefused \in BOOLEAN :
          LET r == infer_schema(df, boolDtypeRefused)
          IN  IF r.raised
              THEN pc' = "raised" /\ schema' = schema
              ELSE pc' = "inferred" /\ schema' = r.schema
    /\ UNCHANGED <<df, all_kpis, kpis, warned, sql, host>>

\* kpis = generate_kpis(schema, df)
GenerateKpis ==
    /\ pc = "inferred"
    /\ \E allNaRaises \in BOOLEAN :
          \E r \in {generate_kpis(schema, df, allNaRaises)} :
              /\ all_kpis' = r.all_kpis
              /\ kpis' = r.unique_kpis
              /\ warned' = r.warned
    /\ pc' = "generated"
    /\ df' = CallerTable(df, schema)
    /\ UNCHANGED <<schema, sql, host>>

\* kpis = generate_time_series_kpis(schema, df), called on its own
GenerateTimeSeriesKpis ==
    /\ pc = "declared"
    /\ kpis' = generate_time_series_kpis(schema, df)
    /\ pc' = "series"
    /\ UNCHANGED <<df, schema, all_kpis, warned, sql, host>>

(***************************************************************************)
(* Input tables.                                                           *)
(***************************************************************************)
n_x == <<"x">>
n_order_id == <<"o", "r", "d", "e", "r", "_", "i", "d">>
n_update_day == <<"u", "p", "d", "a", "t", "e", "_", "d", "a", "y">>
n_order_date == <<"o", "r", "d", "e", "r", "_", "d", "a", "t", "e">>
n_fiscal_year == <<"f", "i", "s", "c", "a", "l", "_", "y", "e", "a", "r">>
n_holiday == <<"h", "o", "l", "i", "d", "a", "y">>
n_amount == <<"a", "m", "o", "u", "n", "t">>
n_a_b == <<"a", "_", "b">>
n_qty == <<"q", "t", "y">>
n_status == <<"s", "t", "a", "t", "u", "s">>
n_region == <<"r", "e", "g", "i", "o", "n">>
n_notes == <<"n", "o", "t", "e", "s">>
n_lag == <<"l", "a", "g">>
n_a_sp_b == <<"a", " ", "b">>
n_date_id == <<"d", "a", "t", "e", "_", "i", "d">>
v_apple == <<"a", "p", "p", "l", "e">>
v_banana == <<"b", "a", "n", "a", "n", "a">>
v_cherry == <<"c", "h", "e", "r", "r", "y">>

\* n numbers, the first u of them distinct: 1, 2, .., u, u, .., u
Ramp(n, u) == [i \in 1..n |-> Num(Min2(i, u))]
\* a word of three characters for every i < 100
Word(i) == <<"v", DigitCh(i \div 10), DigitCh(i % 10)>>
\* n words, u of them distinct, in rotation
Words(n, u) == [i \in 1..n |-> Str(Word(((i - 1) % u) + 1))]
Fruits(n) == [i \in 1..n |-> Str(<<v_apple, v_banana, v_cherry>>[((i - 1) % 3) + 1])]
\* a text of 101 characters for every i < 10
LongText(i) == [j \in 1..101 |-> IF j = 101 THEN DigitCh(i) ELSE "a"]
LongTexts(n) == [i \in 1..n |-> Str(LongText(i % 10))]
Iso(y, m, d) ==
    <<DigitCh(y \div 1000), DigitCh((y \div 100) % 10), DigitCh((y \div 10) % 10),
      DigitCh(y % 10), "-", DigitCh(m \div 10), DigitCh(m % 10), "-",
      DigitCh(d \div 10), DigitCh(d % 10)>>
\* n days of January 2024, as text and as timestamps
IsoDays(n) == [i \in 1..n |-> Str(Iso(2024, 1, i))]
StampDays(n) == [i \in 1..n |-> Stamp(2024, 1, i)]
Nulls(n) == [i \in 1..n |-> Null]
Bools(n) == [i \in 1..n |-> Bool(i % 2 = 1)]

Column(name, dtype, cells) == [name |-> name, dtype |-> dtype, cells |-> cells]

\* The columns of n rows the inference is tried on.
InferColumns(n) ==
    [u \in 1..3 |-> Column(n_x, "int64", Ramp(n, <<2, n - 1, n>>[u]))]
    \o << Column(n_qty, "float64", Ramp(n, n)),
          Column(n_qty, "uint8", Ramp(n, n)),
          Column(n_order_id, "object", IsoDays(n)),
          Column(n_order_id, "float64", Ramp(n, 1)),
          Column(n_update_day, "object", Fruits(n)),
          Column(n_update_day, "object", IsoDays(n)),
          Column(n_holiday, "bool", Bools(n)),
          Column(n_order_date, "datetime64[ns]", StampDays(n)),
          Column(n_region, "object", Words(n, 2)),
          Column(n_notes, "object", Words(n, n + 1)),
          Column(n_notes, "object", IF n <= 3 THEN LongTexts(n) ELSE IsoDays(n)),
          Column(n_lag, "category", Words(n, 3)),
          Column(n_lag, "string", Words(n, 3)),
          Column(n_status, "object", Nulls(n)),
          Column(n_lag, "bool", Bools(n)),
          Column(n_date_id, "object", IsoDays(n)) >>

DistinctNames(t) == \A i, j \in 1..Len(t) : t[i].name = t[j].name => i = j

\* The tables of 1..k columns with distinct names taken from the sequence
\* cols.
Tables(cols, k) ==
    {t \in UNION {{[i \in 1..w |-> cols[pick[i]]] : pick \in [1..w -> 1..Len(cols)]} :
                     w \in 1..k} :
        DistinctNames(t)}

InferRows == {0, 1, 3, MaxRows - 1, MaxRows}

InitInfer ==
    /\ \E n \in InferRows : df \in Tables(InferColumns(n), MaxCols)
    /\ schema = EmptySchema
    /\ pc = "loaded"
    /\ all_kpis = <<>>
    /\ kpis = <<>>
    /\ warned = FALSE
    /\ sql = NoSql
    /\ HostInit

SpecInfer == InitInfer /\ [][InferSchema]_vars

(***************************************************************************)
(* Properties of infer_schema.                                             *)
(***************************************************************************)
RoleNames == <<"id", "datetime", "categorical", "numeric", "text">>
ListOf(s, r) ==
    CASE r = "id" -> s.id_columns
      [] r = "datetime" -> s.datetime_columns
      [] r = "categorical" -> s.categorical_columns
      [] r = "numeric" -> s.numeric_columns
      [] r = "text" -> s.text_columns
Occurrences(list, c) == Cardinality({i \in 1..Len(list) : list[i] = c})
InList(list, c) == \E i \in 1..Len(list) : list[i] = c
\* list holds names of raw, in the order of raw
KeepsOrder(list, raw) ==
    \A i, j \in 1..Len(list) :
        i < j => \E a, b \in 1..Len(raw) : a < b /\ raw[a] = list[i] /\ raw[b] = list[j]
NoNamePattern(col) ==
    /\ ~detect_column_pattern(col.name, ID_PATTERNS)
    /\ ~detect_column_pattern(col.name, DATETIME_PATTERNS)

\* C1: in every schema infer_schema returns for a table with distinct
\* column names, raw_columns is the table's column list, every column is
\* in exactly one of the five role lists exactly once, the role lists hold
\* no other name, and every role list keeps the table's column order.
C1_RoleListsPartitionColumns ==
    pc = "inferred" =>
        /\ schema.raw_columns = ColumnNames(df)
        /\ \A i \in 1..Len(df) :
              Cardinality({<<r, k>> \in (1..5) \X (1..Len(df)) :
                              /\ k <= Len(ListOf(schema, RoleNames[r]))
                              /\ ListOf(schema, RoleNames[r])[k] = df[i].name}) = 1
        /\ \A r \in 1..5 :
              /\ \A k \in 1..Len(ListOf(schema, RoleNames[r])) :
                    InList(schema.raw_columns, ListOf(schema, RoleNames[r])[k])
              /\ KeepsOrder(ListOf(schema, RoleNames[r]), schema.raw_columns)
\* a schema of two columns with different roles
C1_Witness ==
    /\ pc = "inferred"
    /\ Len(df) = 2
    /\ Len(schema.numeric_columns) = 1
    /\ Len(schema.text_columns) = 1

\* C3 as stated: an integer column without a name hint is Identifier
\* whenever at least 95% of its values are unique, the boundary of exactly
\* 95% included, and Numeric otherwise.
C3_AtLeast95IsIdentifier ==
    pc = "inferred" =>
        \A i \in 1..Len(df) :
            (df[i].dtype \in SignedIntDtypes /\ NoNamePattern(df[i])) =>
                IF NUnique(df[i].cells) * 100 >= 95 * Rows(df)
                THEN InList(schema.id_columns, df[i].name)
                ELSE InList(schema.numeric_columns, df[i].name)
\* C3, amended: in every schema infer_schema returns, a column of signed
\* integer storage type without a name hint is Identifier when strictly
\* more than 95% of its values are unique and Numeric otherwise, also at
\* exactly 95%.
C3_MoreThan95IsIdentifier ==
    pc = "inferred" =>
        \A i \in 1..Len(df) :
            (df[i].dtype \in SignedIntDtypes /\ NoNamePattern(df[i])) =>
                IF NUnique(df[i].cells) * 100 > 95 * Rows(df)
                THEN InList(schema.id_columns, df[i].name)
                ELSE InList(schema.numeric_columns, df[i].name)
\* 19 distinct values in 20 rows: Numeric
C3_Witness ==
    /\ pc = "inferred"
    /\ \E i \in 1..Len(df) :
          /\ df[i].dtype = "int64" /\ NoNamePattern(df[i])
          /\ Rows(df) > 0
          /\ NUnique(df[i].cells) * 100 = 95 * Rows(df)
          /\ InList(schema.numeric_columns, df[i].name)

\* the sample of up to 100 non-null values holds a value that is no date
SampleFailsToParse(col) ==
    \E i \in 1..Len(HeadN(DropNa(col.cells), SAMPLE_SIZE)) :
        ~Convertible(HeadN(DropNa(col.cells), SAMPLE_SIZE)[i])
DatetimeNamedUnparseable(col) ==
    /\ detect_column_pattern(col.name, DATETIME_PATTERNS)
    /\ ~detect_column_pattern(col.name, ID_PATTERNS)
    /\ SampleFailsToParse(col)

\* C4: a column whose name matches a datetime pattern (and no identifier
\* pattern) but whose sample does not parse as dates is not classified
\* Datetime and nothing is raised: its role is the one the storage-type
\* rules give it, Categorical or Text for a string column.
C4_UnparseableFallsToDtypeRules ==
    pc \in {"inferred", "raised"} =>
        \A i \in 1..Len(df) :
            DatetimeNamedUnparseable(df[i]) =>
                /\ pc = "inferred"
                /\ ~InList(schema.datetime_columns, df[i].name)
                /\ \A b \in BOOLEAN :
                      InList(ListOf(schema, DtypeRole(df[i], Rows(df), b)), df[i].name)
                /\ df[i].dtype = "object" =>
                      \/ InList(schema.categorical_columns, df[i].name)
                      \/ InList(schema.text_columns, df[i].name)
\* update_day = apple, banana, cherry, ... classified Categorical or Text
C4_Witness ==
    /\ pc = "inferred"
    /\ \E i \in 1..Len(df) :
          /\ df[i].name = n_update_day
          /\ DatetimeNamedUnparseable(df[i])
          /\ Rows(df) >= 3
          /\ df[i].cells[1] = Str(v_apple)
          /\ InList(schema.categorical_columns, df[i].name)

\* C8 as stated: infer_schema on a table with zero rows does not raise,
\* whatever the names and storage types of its columns.
C8_EmptyTableNeverRaises ==
    Rows(df) = 0 => pc # "raised"

(***************************************************************************)
(* Further properties of infer_schema.                                     *)
(***************************************************************************)
\* C11 as stated: a column of boolean storage type whose name matches no
\* identifier and no datetime pattern is in the Categorical list and not
\* in the Numeric list.
C11_BooleanIsCategorical ==
    pc = "inferred" =>
        \A i \in 1..Len(df) :
            (is_bool_dtype(df[i].dtype) /\ NoNamePattern(df[i])) =>
                /\ InList(schema.categorical_columns, df[i].name)
                /\ ~InList(schema.numeric_columns, df[i].name)

\* C16: a column whose name matches an identifier pattern is in the
\* Identifier list whatever its storage type, its values and the other
\* patterns its name matches; such a column is never the one that makes
\* infer_schema raise.
C16_IdentifierNameWins ==
    /\ pc = "inferred" =>
          \A i \in 1..Len(df) :
              detect_column_pattern(df[i].name, ID_PATTERNS)
                  => InList(schema.id_columns, df[i].name)
    /\ pc = "raised" =>
          \E i \in 1..Len(df) : ~detect_column_pattern(df[i].name, ID_PATTERNS)
\* date_id holds dates as text, order_id is a float column of one value
C16_Witness ==
    /\ pc = "inferred"
    /\ Rows(df) > 1
    /\ \E i, j \in 1..Len(df) :
          /\ detect_column_pattern(df[i].name, ID_PATTERNS)
          /\ detect_column_pattern(df[i].name, DATETIME_PATTERNS)
          /\ df[i].dtype = "object"
          /\ \A k \in 1..Rows(df) : IsIsoDate(df[i].cells[k].s)
          /\ InList(schema.id_columns, df[i].name)
          /\ detect_column_pattern(df[j].name, ID_PATTERNS)
          /\ df[j].dtype = "float64"
          /\ NUnique(df[j].cells) = 1
          /\ InList(schema.id_columns, df[j].name)

(***************************************************************************)
(* Tables of string columns, for the string rules of infer_column_type.    *)
(***************************************************************************)
\* the i-th text of len characters, i < 100
TextOf(len, i) ==
    [j \in 1..len |-> IF j = len THEN DigitCh(i % 10)
                      ELSE IF j = len - 1 THEN DigitCh(i \div 10) ELSE "a"]
\* n texts of len characters, u of them distinct, in rotation
Texts(len, n, u) == [i \in 1..n |-> Str(TextOf(len, ((i - 1) % u) + 1))]
\* a number of distinct values between 30% and 50% of n rows (n > 2)
TwoFifths(n) == Max2(1, (2 * n) \div 5)

TextColumns(n) ==
    << Column(n_region, "object", Words(n, TwoFifths(n))),
       Column(n_region, "object", Texts(50, n, TwoFifths(n))),
       Column(n_lag, "object", Words(n, TwoFifths(n))),
       Column(n_lag, "string", Words(n, 1)),
       Column(n_notes, "object", Texts(101, n, 1)),
       Column(n_notes, "object", Texts(100, n, 1)),
       Column(n_notes, "object", Words(n, Max2(n, 1))),
       Column(n_status, "object", Nulls(n)),
       Column(n_update_day, "object", Fruits(n)) >>

InitText ==
    /\ \E n \in InferRows : df \in Tables(TextColumns(n), MaxCols)
    /\ schema = EmptySchema
    /\ pc = "loaded"
    /\ all_kpis = <<>>
    /\ kpis = <<>>
    /\ warned = FALSE
    /\ sql = NoSql
    /\ HostInit

SpecInferText == InitText /\ [][InferSchema]_vars

\* the role the string rules give, in the terms of unique_ratio and
\* avg_length (no comparison with the mean of no value holds)
RoleByStringRules(col) ==
    LET nunique == NUnique(col.cells)
        rows == Len(col.cells)
        total_length == SumStrLen(col.cells)
        ratio_below_half == 2 * nunique < Max2(rows, 1)
        ratio_below_third == 10 * nunique < 3 * Max2(rows, 1)
        avg_below_50 == rows > 0 /\ total_length < 50 * rows
        avg_above_100 == rows > 0 /\ total_length > 100 * rows
        few_values == nunique < 50 /\ 10 * nunique < rows
    IN  IF /\ ratio_below_half /\ avg_below_50
           /\ (detect_column_pattern(col.name, CATEGORICAL_PATTERNS) \/ few_values)
        THEN "categorical"
        ELSE IF avg_above_100 THEN "text"
        ELSE IF ratio_below_third THEN "categorical"
        ELSE "text"

\* C17: a string/object column that matches no identifier pattern and is
\* not classified Datetime is Categorical if unique_ratio < 0.5 and
\* avg_length < 50 and (its name matches a categorical pattern or
\* nunique < min(50, 0.1 * rows)); otherwise Text if avg_length > 100;
\* otherwise Categorical if unique_ratio < 0.3; otherwise Text.
C17_StringRules ==
    pc = "inferred" =>
        \A i \in 1..Len(df) :
            (/\ df[i].dtype \in {"object", "string"}
             /\ ~detect_column_pattern(df[i].name, ID_PATTERNS)
             /\ ~InList(schema.datetime_columns, df[i].name))
                => /\ InList(ListOf(schema, RoleByStringRules(df[i])), df[i].name)
                   /\ \A r \in 1..5 :
                         InList(ListOf(schema, RoleNames[r]), df[i].name)
                             => RoleNames[r] = RoleByStringRules(df[i])
\* unique_ratio in [0.3, 0.5), short values, no categorical name, not
\* fewer values than min(50, 0.1 * rows): Text
C17_Witness ==
    /\ pc = "inferred"
    /\ \E i \in 1..Len(df) :
          /\ df[i].dtype = "object"
          /\ ~detect_column_pattern(df[i].name, CATEGORICAL_PATTERNS)
          /\ 10 * NUnique(df[i].cells) >= 3 * Rows(df)
          /\ 2 * NUnique(df[i].cells) < Rows(df)
          /\ SumStrLen(df[i].cells) < 50 * Rows(df)
          /\ 10 * NUnique(df[i].cells) >= Rows(df)
          /\ InList(schema.text_columns, df[i].name)

(***************************************************************************)
(* The pipeline of app.py: a table is loaded, its schema inferred, and the *)
(* KPI catalogue generated from schema and table.                          *)
(***************************************************************************)
\* alternating 2, 1, .. with the last one (two) value(s) far off
OneOutlier(n) == [i \in 1..n |-> Num(IF i = n THEN 10 ELSE 1 + (i % 2))]
TwoOutliers(n) == [i \in 1..n |-> Num(IF i >= n - 1 THEN 10 ELSE 1 + (i % 2))]
Zeros(n) == [i \in 1..n |-> Num(0)]
\* the first of January of n consecutive years; n times the same day
YearlyStamps(n) == [i \in 1..n |-> Stamp(2000 + i, 1, 1)]
SameDay(n) == [i \in 1..n |-> Stamp(2024, 1, 1)]
\* n words, as many distinct ones as a categorical column of n rows may hold
FewWords(n) == Words(n, IF n < 7 THEN 1 ELSE 2)

\* The columns of n rows the rules are tried on.  Tables of more than 16
\* rows get no date column with repeated dates (see SortedByDate).
KpiColumns(n) ==
    << Column(n_amount, "float64", OneOutlier(n)),
       Column(n_qty, "int64", TwoOutliers(n)),
       Column(n_a_b, "int64", Zeros(n)),
       Column(n_a_sp_b, "float64", Ramp(n, n)),
       Column(n_order_date, "datetime64[ns]", YearlyStamps(n)),
       Column(n_order_date, "object", IsoDays(n)),
       Column(n_region, "object", FewWords(n)),
       Column(n_status, "object", FewWords(n)),
       Column(n_status, "object", Nulls(n)),
       Column(n_order_id, "int64", Ramp(n, n)) >>
    \o (IF n <= 16
        THEN << Column(n_order_date, "datetime64[ns]", SameDay(n)),
                Column(n_fiscal_year, "int64", Ramp(n, 2)) >>
        ELSE <<>>)

KpiRows == {0, 4, 11, MaxRows}

Init ==
    /\ \E n \in KpiRows : df \in Tables(KpiColumns(n), MaxCols)
    /\ schema = EmptySchema
    /\ pc = "loaded"
    /\ all_kpis = <<>>
    /\ kpis = <<>>
    /\ warned = FALSE
    /\ sql = NoSql
    /\ HostInit

Next == InferSchema \/ GenerateKpis

Spec == Init /\ [][Next]_vars

(***************************************************************************)
(* Properties of generate_kpis.                                            *)
(***************************************************************************)
\* the index of the first descriptor of that name in list
FirstIndex(list, name) ==
    CHOOSE i \in 1..Len(list) :
        list[i].name = name /\ \A j \in 1..(i - 1) : list[j].name # name
NumericColumn(i) == schema.numeric_columns[i]
ZeroSum(col) == Sum(Values(Col(df, col))) = 0
\* list holds a ratio descriptor that uses both columns
RatioOver(list, a, b) ==
    \E i \in 1..Len(list) :
        /\ list[i].category = "ratio"
        /\ InList(list[i].columns_used, a)
        /\ InList(list[i].columns_used, b)
\* the time-series rule emitted the descriptor of that granularity for col
TimeSeriesEmitted(col, subcategory, suffix) ==
    \E i \in 1..Len(all_kpis) :
        /\ all_kpis[i].category = "time_series"
        /\ all_kpis[i].subcategory = subcategory
        /\ all_kpis[i].column = col
        /\ all_kpis[i].name = Pretty(col) \o suffix
\* the first Datetime column holds one date in each of four years, in a
\* table of four rows, and is not named after years
FourDatesInFourYears ==
    /\ Rows(df) = 4
    /\ schema.datetime_columns # <<>>
    /\ ~Contains(Lower(schema.datetime_columns[1]), <<"y", "e", "a", "r">>)
    /\ LET cells == Col(df, schema.datetime_columns[1]).cells
       IN  /\ \A i \in 1..4 : Coerce(cells[i]) # NaT
           /\ Cardinality({Coerce(cells[i]).y : i \in 1..4}) = 4
\* the descriptors the IQR rule emitted for col
OutlierDescriptors(col) ==
    {i \in 1..Len(all_kpis) :
        /\ all_kpis[i].subcategory = "iqr_outliers"
        /\ all_kpis[i].column = col
        /\ all_kpis[i].name = <<"O", "u", "t", "l", "i", "e", "r", " ", "D", "e", "t", "e", "c", "t", "i", "o", "n", " ", "i", "n", " ">> \o Pretty(col)}
OutliersOf(col) == IqrOutliers(Values(Col(df, col)))
CreativeCategories ==
    {"anomaly_detection", "pattern_detection", "comparative_analysis",
     "distribution_analysis", "trend_analysis"}

\* C2: no two descriptors of the catalogue have the same name; for every
\* name in the concatenation of the family outputs the catalogue holds the
\* first descriptor of that name and no descriptor of another name; the
\* catalogue keeps the order of the concatenation.
C2_CatalogueKeepsFirstOfEachName ==
    pc = "generated" =>
        /\ \A i, j \in 1..Len(kpis) : kpis[i].name = kpis[j].name => i = j
        /\ \A i \in 1..Len(all_kpis) :
              \E j \in 1..Len(kpis) :
                  kpis[j] = all_kpis[FirstIndex(all_kpis, all_kpis[i].name)]
        /\ \A j \in 1..Len(kpis) :
              \E i \in 1..Len(all_kpis) : all_kpis[i].name = kpis[j].name
        /\ \A i, j \in 1..Len(kpis) :
              i < j => FirstIndex(all_kpis, kpis[i].name)
                         < FirstIndex(all_kpis, kpis[j].name)
\* two different descriptors of one name were produced, the first is kept
C2_Witness ==
    /\ pc = "generated"
    /\ \E i, j \in 1..Len(all_kpis) :
          /\ i < j
          /\ all_kpis[i].name = all_kpis[j].name
          /\ all_kpis[i] # all_kpis[j]
          /\ InList(kpis, all_kpis[i])
          /\ ~InList(kpis, all_kpis[j])

\* C5 as stated: four dates in four years in a table of four rows give a
\* per-Year and no per-Day descriptor for every Numeric column.
C5_FourYearsGiveYearGranularity ==
    (pc = "generated" /\ FourDatesInFourYears) =>
        \A i \in 1..Len(schema.numeric_columns) :
            /\ TimeSeriesEmitted(NumericColumn(i), "yearly", <<" ", "p", "e", "r", " ", "Y", "e", "a", "r">>)
            /\ ~TimeSeriesEmitted(NumericColumn(i), "daily", <<" ", "p", "e", "r", " ", "D", "a", "y">>)
\* C5: four dates in four years in a table of four rows give day
\* granularity: a per-Day and a per-Month descriptor and no per-Year
\* descriptor for every Numeric column.
C5_FourYearsGiveDayGranularity ==
    (pc = "generated" /\ FourDatesInFourYears) =>
        \A i \in 1..Len(schema.numeric_columns) :
            /\ TimeSeriesEmitted(NumericColumn(i), "daily", <<" ", "p", "e", "r", " ", "D", "a", "y">>)
            /\ TimeSeriesEmitted(NumericColumn(i), "monthly", <<" ", "p", "e", "r", " ", "M", "o", "n", "t", "h">>)
            /\ ~TimeSeriesEmitted(NumericColumn(i), "yearly", <<" ", "p", "e", "r", " ", "Y", "e", "a", "r">>)
C5_Witness ==
    /\ pc = "generated"
    /\ FourDatesInFourYears
    /\ schema.numeric_columns # <<>>
    /\ TimeSeriesEmitted(NumericColumn(1), "daily", <<" ", "p", "e", "r", " ", "D", "a", "y">>)

\* C6 as stated: a Numeric column of sum zero is in no ratio descriptor of
\* the catalogue, with whichever other Numeric column.
C6_ZeroSumColumnInNoRatio ==
    pc = "generated" =>
        \A i, j \in 1..Len(schema.numeric_columns) :
            (i # j /\ ZeroSum(NumericColumn(i)))
                => ~RatioOver(kpis, NumericColumn(i), NumericColumn(j))
\* C6: a Numeric column of sum zero is the denominator of no ratio
\* descriptor; of two Numeric columns the earlier one is the denominator,
\* and their ratio descriptor is emitted exactly if its sum is not zero.
C6_ZeroSumColumnIsNoDenominator ==
    pc = "generated" =>
        /\ \A k \in 1..Len(all_kpis) :
              all_kpis[k].category = "ratio" => ~ZeroSum(all_kpis[k].denominator)
        /\ \A i, j \in 1..Len(schema.numeric_columns) :
              i < j =>
                 IF ZeroSum(NumericColumn(i))
                 THEN ~RatioOver(all_kpis, NumericColumn(i), NumericColumn(j))
                 ELSE \E k \in 1..Len(all_kpis) :
                         /\ all_kpis[k].category = "ratio"
                         /\ all_kpis[k].denominator = NumericColumn(i)
                         /\ all_kpis[k].column = NumericColumn(j)
                         /\ all_kpis[k].columns_used
                               = <<NumericColumn(i), NumericColumn(j)>>
                         /\ all_kpis[k].name
                               = Pretty(NumericColumn(j)) \o <<" ", "t", "o", " ">>
                                   \o Pretty(NumericColumn(i)) \o <<" ", "R", "a", "t", "i", "o">>
\* a column of sum zero before a column of another sum, and no ratio
C6_Witness ==
    /\ pc = "generated"
    /\ Rows(df) > 0
    /\ Len(schema.numeric_columns) = 2
    /\ ZeroSum(NumericColumn(1))
    /\ ~ZeroSum(NumericColumn(2))
    /\ ~RatioOver(all_kpis, NumericColumn(1), NumericColumn(2))

\* C7: when the creative rules end without exception, the anomaly rule
\* emits for a Numeric column one 'Outlier Detection in <col>' descriptor
\* if the values outside the IQR fences are more than 5% of the rows, and
\* none otherwise, also at exactly 5%.
C7_OutlierDescriptorIffShareAbove5 ==
    (pc = "generated" /\ ~warned) =>
        \A i \in 1..Len(schema.numeric_columns) :
            Cardinality(OutlierDescriptors(NumericColumn(i)))
                = IF OutliersOf(NumericColumn(i)) * 100 > 5 * Rows(df) THEN 1 ELSE 0
\* one column at exactly 5% without descriptor, another above with one
C7_Witness ==
    /\ pc = "generated"
    /\ ~warned
    /\ \E i, j \in 1..Len(schema.numeric_columns) :
          /\ OutliersOf(NumericColumn(i)) > 0
          /\ OutliersOf(NumericColumn(i)) * 100 = 5 * Rows(df)
          /\ OutlierDescriptors(NumericColumn(i)) = {}
          /\ OutliersOf(NumericColumn(j)) * 100 > 5 * Rows(df)
          /\ OutlierDescriptors(NumericColumn(j)) # {}

\* C9: when a creative sub-rule raises, generate_kpis returns (with a
\* warning) the deduplicated concatenation of the five rule families of
\* kpi_rules, and the catalogue holds no creative descriptor.
C9_CreativeFailureLeavesRuleFamilies ==
    (pc = "generated" /\ warned) =>
        /\ kpis = Dedup(RuleFamilies(schema, df))
        /\ \A i \in 1..Len(kpis) : kpis[i].category \notin CreativeCategories
\* the comparative rule raised after the anomaly rule had emitted
C9_Witness ==
    /\ pc = "generated"
    /\ warned
    /\ detect_anomalies_kpis(df, schema) # <<>>
    /\ kpis # <<>>

MaxRuleCols == 3
MaxRuleRows == 30

n_records == <<"r", "e", "c", "o", "r", "d", "s">>
n_stage == <<"s", "t", "a", "g", "e">>
n_stage_growth == <<"s", "t", "a", "g", "e", "_", "g", "r", "o", "w", "t", "h">>

RuleColumns(n) ==
    << Column(n_stage, "float64", OneOutlier(n)),
       Column(n_stage_growth, "object", Words(n, 2)),
       Column(n_order_date, "datetime64[ns]", StampDays(n)),
       Column(n_records, "float64", Ramp(n, n)),
       Column(n_order_id, "int64", Ramp(n, n)),
       Column(n_region, "object", Words(n, 2)) >>

RuleRows == {0, 7, MaxRuleRows}

InitRules ==
    /\ \E n \in RuleRows : df \in Tables(RuleColumns(n), MaxRuleCols)
    /\ schema = EmptySchema
    /\ pc = "loaded"
    /\ all_kpis = <<>>
    /\ kpis = <<>>
    /\ warned = FALSE
    /\ sql = NoSql
    /\ HostInit

SpecRules == InitRules /\ [][Next]_vars

TotalRecords == <<"T", "o", "t", "a", "l", " ", "R", "e", "c", "o", "r", "d", "s">>
\* d is the record count of lines 90-102
IsRecordCount(d) ==
    /\ d.sql_function = "COUNT"
    /\ d.category = "aggregation"
    /\ d.column = None
    /\ d.columns_used = <<>>

\* C12 as stated: the catalogue of a table with rows holds exactly one
\* descriptor named 'Total Records', and it is the record count; the
\* catalogue of a table without rows holds no record count.
C12_OneRecordCount ==
    pc = "generated" =>
        IF Rows(df) > 0
        THEN /\ Cardinality({i \in 1..Len(kpis) : kpis[i].name = TotalRecords}) = 1
             /\ \A i \in 1..Len(kpis) :
                    kpis[i].name = TotalRecords => IsRecordCount(kpis[i])
        ELSE \A i \in 1..Len(kpis) : ~IsRecordCount(kpis[i])

\* the aggregation descriptors of column c in list, of that subcategory
AggregationsOf(list, c, subcategory) ==
    {i \in 1..Len(list) :
        /\ list[i].category = "aggregation"
        /\ list[i].column = c
        /\ list[i].subcategory = subcategory}

\* C13 as stated: the catalogue holds, for every Numeric column, exactly
\* one aggregation descriptor of each of sum, average, min and max, all of
\* difficulty easy, and for every Identifier column exactly one
\* count_distinct descriptor, whatever the (distinct) column names are.
C13_FourAggregationsPerNumericColumn ==
    pc = "generated" =>
        /\ \A c \in {schema.numeric_columns[i] : i \in 1..Len(schema.numeric_columns)} :
               \A sub \in {"sum", "average", "min", "max"} :
                   /\ Cardinality(AggregationsOf(kpis, c, sub)) = 1
                   /\ \A i \in AggregationsOf(kpis, c, sub) : kpis[i].difficulty = "easy"
        /\ \A c \in {schema.id_columns[i] : i \in 1..Len(schema.id_columns)} :
               Cardinality(AggregationsOf(kpis, c, "count_distinct")) = 1

\* the place of the family of descriptor d in the order of the claim: the
\* five families of kpi_rules, then the five creative rules
FamilyRank(d) ==
    CASE d.category = "aggregation" -> 1
      [] d.category = "time_series" -> 2
      [] d.category = "category_breakdown" -> 3
      [] d.category = "conversion" -> 4
      [] d.category \in {"statistical", "ratio", "growth"} -> 5
      [] d.category = "anomaly_detection" -> 6
      [] d.category = "pattern_detection" -> 7
      [] d.category = "comparative_analysis" -> 8
      [] d.category = "distribution_analysis" -> 9
      [] d.category = "trend_analysis" -> 10
FamiliesIn(list) == {FamilyRank(list[i]) : i \in 1..Len(list)}

\* C15: in the catalogue no descriptor of a later family precedes one of
\* an earlier family, and of the descriptors of one name the catalogue
\* keeps one of the earliest family that produced the name.
C15_FamilyOrder ==
    pc = "generated" =>
        /\ \A i, j \in 1..Len(kpis) :
               i < j => FamilyRank(kpis[i]) <= FamilyRank(kpis[j])
        /\ \A i \in 1..Len(all_kpis) :
               \E k \in 1..Len(kpis) :
                   /\ kpis[k].name = all_kpis[i].name
                   /\ FamilyRank(kpis[k]) <= FamilyRank(all_kpis[i])
\* two families produced the same name, and creative rules ran after the
\* five families of kpi_rules
C15_Witness ==
    /\ pc = "generated"
    /\ \E i, j \in 1..Len(all_kpis) :
           /\ all_kpis[i].name = all_kpis[j].name
           /\ FamilyRank(all_kpis[i]) # FamilyRank(all_kpis[j])
    /\ {1, 2, 3, 4, 5} \subseteq FamiliesIn(kpis)
    /\ Cardinality(FamiliesIn(kpis) \cap {6, 7, 8, 9, 10}) >= 4

(***************************************************************************)
(* generate_time_series_kpis on a table and a schema of the caller: every  *)
(* column comes with the role the schema declares for it.                  *)
(***************************************************************************)
MaxSeriesRows == 31

n_created_at == <<"c", "r", "e", "a", "t", "e", "d", "_", "a", "t">>
n_closed_at == <<"c", "l", "o", "s", "e", "d", "_", "a", "t">>
n_leap_year == <<"l", "e", "a", "p", "_", "y", "e", "a", "r">>
n_user_id == <<"u", "s", "e", "r", "_", "i", "d">>

\* n distinct days from January 2024 on; n days of which three are distinct
SpreadDays(n) == [i \in 1..n |-> Stamp(2024, 1 + ((i - 1) \div 28), 1 + ((i - 1) % 28))]
ThreeDays(n) == [i \in 1..n |-> Stamp(2024, 1, 1 + (i % 3))]

Declared(col, role) == [col |-> col, role |-> role]
SeriesColumns(n) ==
    << Declared(Column(n_amount, "float64", Ramp(n, n)), "numeric"),
       Declared(Column(n_qty, "int64", TwoOutliers(n)), "numeric"),
       Declared(Column(n_order_date, "datetime64[ns]", SpreadDays(n)), "datetime"),
       Declared(Column(n_created_at, "datetime64[ns]", ThreeDays(n)), "datetime"),
       Declared(Column(n_closed_at, "datetime64[ns]", SameDay(n)), "datetime"),
       Declared(Column(n_fiscal_year, "object", Fruits(n)), "datetime"),
       Declared(Column(n_fiscal_year, "datetime64[ns]", SpreadDays(n)), "datetime"),
       Declared(Column(n_update_day, "object", Fruits(n)), "datetime"),
       Declared(Column(n_leap_year, "bool", Bools(n)), "datetime"),
       Declared(Column(n_order_id, "int64", Ramp(n, n)), "id"),
       Declared(Column(n_user_id, "object", Words(n, n)), "id") >>

\* the schema that lists every column of t under its declared role
DeclaredSchema(t, roles) ==
    [id_columns |-> RoleList(t, roles, "id"),
     datetime_columns |-> RoleList(t, roles, "datetime"),
     categorical_columns |-> RoleList(t, roles, "categorical"),
     numeric_columns |-> RoleList(t, roles, "numeric"),
     text_columns |-> RoleList(t, roles, "text"),
     raw_columns |-> ColumnNames(t)]

SeriesRows == {4, MaxSeriesRows}

InitSeries ==
    /\ \E n \in SeriesRows :
          \E w \in 1..MaxRuleCols :
              \E pick \in [1..w -> 1..Len(SeriesColumns(n))] :
                  /\ df = [i \in 1..w |-> SeriesColumns(n)[pick[i]].col]
                  /\ schema = DeclaredSchema(df, [i \in 1..w |-> SeriesColumns(n)[pick[i]].role])
    /\ DistinctNames(df)
    /\ pc = "declared"
    /\ all_kpis = <<>>
    /\ kpis = <<>>
    /\ warned = FALSE
    /\ sql = NoSql
    /\ HostInit

SpecSeries == InitSeries /\ [][GenerateTimeSeriesKpis]_vars

(***************************************************************************)
(* Properties of generate_time_series_kpis.                                *)
(***************************************************************************)
FirstDatetime == Col(df, schema.datetime_columns[1])
SampleOfFirstDatetime == HeadN(DropNa(FirstDatetime.cells), SAMPLE_SIZE)
\* the sample holds values and none of them is a date
NothingParses ==
    /\ schema.datetime_columns # <<>>
    /\ SampleOfFirstDatetime # <<>>
    /\ \A i \in 1..Len(SampleOfFirstDatetime) : ~Convertible(SampleOfFirstDatetime[i])
NamedAfterYear(col) == Contains(Lower(col), <<"y", "e", "a", "r">>)
Subcategories(list) == {list[i].subcategory : i \in 1..Len(list)}

\* C18 as stated: when no sampled value of the first Datetime column
\* parses, the descriptors are those of granularity year if the column
\* name contains 'year', and those of granularity day otherwise.
C18_NameHintWhenNothingParses ==
    (pc = "series" /\ NothingParses /\ kpis # <<>>) =>
        IF NamedAfterYear(schema.datetime_columns[1])
        THEN "yearly" \in Subcategories(kpis) /\ "daily" \notin Subcategories(kpis)
        ELSE "daily" \in Subcategories(kpis) /\ "yearly" \notin Subcategories(kpis)

\* the time-series descriptors of list that count distinct values
DistinctCounts(list) == SelectSeq(list, LAMBDA d : d.sql_function = "COUNT_DISTINCT")

\* C19: every descriptor of the time-series family is grouped by the first
\* Datetime column, every distinct count is of the first Identifier
\* column, no later Datetime or Identifier column is used by a descriptor,
\* and without a Datetime column the family emits nothing.
C19_OnlyFirstDatetimeAndIdentifier ==
    pc = "series" =>
        /\ schema.datetime_columns = <<>> => kpis = <<>>
        /\ \A i \in 1..Len(kpis) :
               /\ kpis[i].category = "time_series"
               /\ kpis[i].group_by = schema.datetime_columns[1]
               /\ kpis[i].sql_function = "COUNT_DISTINCT" =>
                      kpis[i].column = schema.id_columns[1]
               /\ \A j \in 2..Len(schema.datetime_columns) :
                      ~InList(kpis[i].columns_used, schema.datetime_columns[j])
               /\ \A j \in 2..Len(schema.id_columns) :
                      ~InList(kpis[i].columns_used, schema.id_columns[j])
\* a call with two Identifier columns and a Datetime column
C19_Witness ==
    /\ pc = "series"
    /\ Len(schema.id_columns) >= 2
    /\ schema.datetime_columns # <<>>
    /\ Len(DistinctCounts(kpis)) = 1

\* the subcategories of the SUM descriptors of column c in list, in order
SumSeriesOf(list, c) ==
    LET sums == SelectSeq(list, LAMBDA d : d.sql_function = "SUM" /\ d.column = c)
    IN  [i \in 1..Len(sums) |-> sums[i].subcategory]
PeriodOf(subcategory) ==
    CASE subcategory = "yearly" -> <<"Y", "e", "a", "r">>
      [] subcategory = "monthly" -> <<"M", "o", "n", "t", "h">>
      [] subcategory = "daily" -> <<"D", "a", "y">>
SubcategoryOf(g) ==
    CASE g = "year" -> "yearly" [] g = "month" -> "monthly" [] g = "day" -> "daily"
InferredGranularity == TimeGranularity(schema.datetime_columns[1], df)

\* C20: with granularity g the family emits for every Numeric column two
\* SUM descriptors, per-Year then per-Month for year, per-Month then
\* per-Year for month, per-Day then per-Month for day, each named after
\* its period; with an Identifier column one distinct count 'New <id> per
\* <period>' of the period g; never a per-Day and a per-Year descriptor
\* together.
C20_DescriptorsOfGranularity ==
    (pc = "series" /\ schema.datetime_columns # <<>>) =>
        /\ \A k \in 1..Len(schema.numeric_columns) :
               SumSeriesOf(kpis, schema.numeric_columns[k]) =
                   CASE InferredGranularity = "year" -> <<"yearly", "monthly">>
                     [] InferredGranularity = "month" -> <<"monthly", "yearly">>
                     [] InferredGranularity = "day" -> <<"daily", "monthly">>
        /\ \A i \in 1..Len(kpis) :
               kpis[i].sql_function = "SUM" =>
                   kpis[i].name = Pretty(kpis[i].column) \o <<" ", "p", "e", "r", " ">>
                                  \o PeriodOf(kpis[i].subcategory)
        /\ schema.id_columns # <<>> =>
               /\ Len(DistinctCounts(kpis)) = 1
               /\ DistinctCounts(kpis)[1].subcategory = SubcategoryOf(InferredGranularity)
               /\ DistinctCounts(kpis)[1].name =
                      <<"N", "e", "w", " ">> \o Pretty(schema.id_columns[1])
                      \o <<" ", "p", "e", "r", " ">>
                      \o PeriodOf(SubcategoryOf(InferredGranularity))
        /\ schema.id_columns = <<>> => DistinctCounts(kpis) = <<>>
        /\ ~({"daily", "yearly"} \subseteq Subcategories(kpis))
\* a month granularity with a Numeric and an Identifier column
C20_Witness ==
    /\ pc = "series"
    /\ schema.datetime_columns # <<>>
    /\ InferredGranularity = "month"
    /\ schema.numeric_columns # <<>>
    /\ schema.id_columns # <<>>
    /\ Len(kpis) = 3

(***************************************************************************)
(* The pipeline on tables of up to four columns: three Numeric and three   *)
(* Categorical columns, dates with gaps, tables below and above the row    *)
(* minima of the creative rules.                                           *)
(***************************************************************************)
MaxWideCols == 4
MaxWideRows == 31

n_price == <<"p", "r", "i", "c", "e">>
n_order_type == <<"o", "r", "d", "e", "r", "_", "t", "y", "p", "e">>

\* lo in the first half of the rows (n \div 2 of them), hi in the second
Steps(n, lo, hi) == [i \in 1..n |-> Num(IF i <= n \div 2 THEN lo ELSE hi)]
\* zeros, and 9 in the last row
Spike(n) == [i \in 1..n |-> Num(IF i = n THEN 9 ELSE 0)]
\* n distinct days, the first and the last one missing
GappedDays(n) == [i \in 1..n |-> IF i = 1 \/ i = n THEN Null ELSE SpreadDays(n)[i]]
\* n words, u of them distinct, in rotation from the last one down
RevWords(n, u) == [i \in 1..n |-> Str(Word(u - ((i - 1) % u)))]

WideColumns(n) ==
    << Column(n_amount, "float64", Steps(n, 10, 11)),
       Column(n_qty, "float64", Steps(n, 0 - 5, 5)),
       Column(n_price, "float64", Spike(n)),
       Column(n_stage, "float64", Steps(n, 10, 8)),
       Column(n_order_date, "datetime64[ns]", SpreadDays(n)),
       Column(n_order_date, "datetime64[ns]", GappedDays(n)),
       Column(n_region, "object", Words(n, 2)),
       Column(n_status, "object", RevWords(n, 2)),
       Column(n_order_type, "object", Words(n, 3)) >>

\* the columns of cols at the indices of the set picked, in the order of
\* cols
Picked(cols, picked) ==
    [k \in 1..Cardinality(picked) |->
        cols[CHOOSE i \in picked : Cardinality({j \in picked : j < i}) = k - 1]]
Reversed(t) == [i \in 1..Len(t) |-> t[Len(t) + 1 - i]]
\* The tables of 1..k columns with distinct names taken from cols in the
\* order of cols or in the opposite order.
OrderedTables(cols, k) ==
    {t \in UNION {{Picked(cols, picked), Reversed(Picked(cols, picked))} :
                     picked \in {q \in SUBSET (1..Len(cols)) :
                                    Cardinality(q) \in 1..k}} :
        DistinctNames(t)}

WideRows == {8, MaxWideRows}

InitWide ==
    /\ \E n \in WideRows : df \in OrderedTables(WideColumns(n), MaxWideCols)
    /\ schema = EmptySchema
    /\ pc = "loaded"
    /\ all_kpis = <<>>
    /\ kpis = <<>>
    /\ warned = FALSE
    /\ sql = NoSql
    /\ HostInit

SpecWide == InitWide /\ [][Next]_vars

(***************************************************************************)
(* Properties of the conversion family.                                    *)
(***************************************************************************)
StatusWords ==
    {<<"s", "t", "a", "t", "u", "s">>, <<"s", "t", "a", "t", "e">>, <<"s", "t", "a", "g", "e">>, <<"p", "h", "a", "s", "e">>, <<"t", "y", "p", "e">>}
\* a Categorical column of the schema with a status-like name
StatusLike(c) ==
    /\ InList(schema.categorical_columns, c)
    /\ \E w \in StatusWords : Contains(Lower(c), w)
\* the descriptors of list of that category and subcategory that use column c
DescriptorsOn(list, category, subcategory, c) ==
    SelectSeq(list, LAMBDA d : /\ d.category = category
                               /\ d.subcategory = subcategory
                               /\ InList(d.columns_used, c))
\* the non-null texts of column c and the rows where a text appears first
TextsOf(c) == DropNa(Col(df, c).cells)
FirstAppearances(c) ==
    SelectSeq([i \in 1..Len(TextsOf(c)) |-> i],
              LAMBDA i : \A j \in 1..(i - 1) : TextsOf(c)[j] # TextsOf(c)[i])

\* C21: the conversion descriptors are on the Categorical columns with a
\* status-like name only; each such column has one distribution
\* descriptor, and one rate descriptor exactly when it holds two distinct
\* non-null values, whose status_values are the two values in the order
\* of their first appearance.
C21_ConversionOfStatusColumns ==
    pc = "generated" =>
        /\ \A i \in 1..Len(all_kpis) :
               all_kpis[i].category = "conversion" =>
                   /\ Len(all_kpis[i].columns_used) = 1
                   /\ StatusLike(all_kpis[i].columns_used[1])
        /\ \A k \in 1..Len(df) :
               StatusLike(df[k].name) =>
                   /\ Len(DescriptorsOn(all_kpis, "conversion", "distribution", df[k].name)) = 1
                   /\ Len(DescriptorsOn(all_kpis, "conversion", "rate", df[k].name)) =
                          (IF Len(FirstAppearances(df[k].name)) = 2 THEN 1 ELSE 0)
                   /\ \A d \in {DescriptorsOn(all_kpis, "conversion", "rate", df[k].name)[i] :
                                  i \in 1..Len(DescriptorsOn(all_kpis, "conversion", "rate", df[k].name))} :
                          d.status_values =
                              [i \in 1..2 |-> TextsOf(df[k].name)[FirstAppearances(df[k].name)[i]].s]
\* a status column of two values of which the larger one appears first,
\* next to a status-like column of three values
C21_Witness ==
    /\ pc = "generated"
    /\ \E k \in 1..Len(df) :
           /\ StatusLike(df[k].name)
           /\ Len(FirstAppearances(df[k].name)) = 2
           /\ StrLess(TextsOf(df[k].name)[FirstAppearances(df[k].name)[2]].s,
                      TextsOf(df[k].name)[FirstAppearances(df[k].name)[1]].s)
           /\ Len(DescriptorsOn(all_kpis, "conversion", "rate", df[k].name)) = 1
    /\ \E k \in 1..Len(df) :
           /\ StatusLike(df[k].name)
           /\ Len(FirstAppearances(df[k].name)) = 3
    /\ \E k \in 1..Len(df) :
           /\ InList(schema.categorical_columns, df[k].name)
           /\ ~StatusLike(df[k].name)

(***************************************************************************)
(* Properties of the statistical family.                                   *)
(***************************************************************************)
\* the ratio descriptors of list with that denominator and that column
RatiosBetween(list, denominator, column) ==
    SelectSeq(list, LAMBDA d : /\ d.category = "ratio"
                               /\ d.denominator = denominator
                               /\ d.column = column)

\* C22: for Numeric columns n_i before n_j the family emits the ratio
\* descriptor with denominator n_i and column n_j exactly when the sum of
\* n_i is not zero; it emits none with an earlier column over a later
\* one, and none with a denominator of sum zero.
C22_RatioOfEarlierNonZeroColumn ==
    pc = "generated" =>
        /\ \A i, j \in 1..Len(schema.numeric_columns) :
               /\ i < j =>
                      Len(RatiosBetween(all_kpis, NumericColumn(i), NumericColumn(j))) =
                          (IF Sum(Values(Col(df, NumericColumn(i)))) # 0 THEN 1 ELSE 0)
               /\ j <= i =>
                      RatiosBetween(all_kpis, NumericColumn(i), NumericColumn(j)) = <<>>
        /\ \A k \in 1..Len(all_kpis) :
               all_kpis[k].category = "ratio" =>
                   /\ InList(schema.numeric_columns, all_kpis[k].denominator)
                   /\ InList(schema.numeric_columns, all_kpis[k].column)
                   /\ Sum(Values(Col(df, all_kpis[k].denominator))) # 0
\* three Numeric columns, the one in the middle of sum zero with values
\* that are not zero
C22_Witness ==
    /\ pc = "generated"
    /\ Len(schema.numeric_columns) >= 3
    /\ Sum(Values(Col(df, NumericColumn(1)))) # 0
    /\ Sum(Values(Col(df, NumericColumn(2)))) = 0
    /\ Values(Col(df, NumericColumn(2)))[1] # 0
    /\ Len(RatiosBetween(all_kpis, NumericColumn(1), NumericColumn(2))) = 1
    /\ Len(RatiosBetween(all_kpis, NumericColumn(1), NumericColumn(3))) = 1
    /\ RatiosBetween(all_kpis, NumericColumn(2), NumericColumn(3)) = <<>>

(***************************************************************************)
(* Properties of the comparative rule.                                     *)
(***************************************************************************)
\* the comparative descriptors of list of that subcategory for the
\* Numeric column n grouped by the Categorical column c
ComparativesOf(list, subcategory, n, c) ==
    SelectSeq(list, LAMBDA d : /\ d.category = "comparative_analysis"
                               /\ d.subcategory = subcategory
                               /\ d.column = n
                               /\ d.group_by = c)

\* C23 as stated: when no creative rule raised, the catalogue holds for
\* each of the first two Categorical columns and each Numeric column a
\* vs_average and a performance_gap descriptor, and none for a later
\* Categorical column.
C23_ComparativePerCategoryAndNumeric ==
    (pc = "generated" /\ ~warned) =>
        \A c \in 1..Len(schema.categorical_columns) :
            \A n \in 1..Len(schema.numeric_columns) :
                \A sub \in {"vs_average", "performance_gap"} :
                    IF c <= 2
                    THEN ComparativesOf(kpis, sub, schema.numeric_columns[n],
                                        schema.categorical_columns[c]) # <<>>
                    ELSE ComparativesOf(kpis, sub, schema.numeric_columns[n],
                                        schema.categorical_columns[c]) = <<>>

(***************************************************************************)
(* Properties of the seasonality rule.                                     *)
(***************************************************************************)
\* the number of rows whose value in the first Datetime column is a date
ParseableDates ==
    Cardinality({i \in 1..Rows(df) :
                    Coerce(Col(df, schema.datetime_columns[1]).cells[i]) # NaT})
Patterns == SelectSeq(all_kpis, LAMBDA d : d.category = "pattern_detection")

\* C24: no pattern_detection descriptor is emitted when fewer than 30
\* rows hold a date in the first Datetime column, and every one emitted
\* is on one of the first two Numeric columns together with the first
\* Datetime column.
C24_SeasonalityNeeds30DatedRows ==
    pc = "generated" =>
        /\ (schema.datetime_columns = <<>> \/ ParseableDates < 30) => Patterns = <<>>
        /\ \A i \in 1..Len(Patterns) :
               /\ InList(HeadN(schema.numeric_columns, 2), Patterns[i].column)
               /\ Patterns[i].columns_used =
                      <<Patterns[i].column, schema.datetime_columns[1]>>
\* a table of 30 rows or more of which fewer than 30 are dated
C24_Witness ==
    /\ pc = "generated"
    /\ ~warned
    /\ schema.datetime_columns # <<>>
    /\ schema.numeric_columns # <<>>
    /\ Rows(df) >= 30
    /\ ParseableDates \in 1..29
    /\ Patterns = <<>>

(***************************************************************************)
(* Properties of the trend rule.                                           *)
(***************************************************************************)
\* the dated rows in date order
TrendRows == SortedByDate(df, schema.datetime_columns[1])
\* the values of column c in the rows before and from index floor(n / 2)
FirstHalf(rows, c) == ValuesAt(df, c, SubSeq(rows, 1, Len(rows) \div 2))
SecondHalf(rows, c) == ValuesAt(df, c, SubSeq(rows, (Len(rows) \div 2) + 1, Len(rows)))
\* |(m2 - m1) / m1 * 100| compared with 10, for the means m1 = s1 / c1 and
\* m2 = s2 / c2: -1, 0 or 1
ChangeAgainst10(s1, c1, s2, c2) ==
    LET change == 100 * Abs(s2 * c1 - s1 * c2)
        tenth == 10 * Abs(s1) * c2
    IN  IF change > tenth THEN 1 ELSE IF change = tenth THEN 0 ELSE 0 - 1
\* m1 # 0 and the change is above 10%
ChangeAbove10(first, second) ==
    /\ Sum(first) # 0
    /\ ChangeAgainst10(Sum(first), Len(first), Sum(second), Len(second)) = 1
ChangeExactly10(first, second) ==
    /\ Sum(first) # 0
    /\ ChangeAgainst10(Sum(first), Len(first), Sum(second), Len(second)) = 0
TrendChanges(c) ==
    SelectSeq(all_kpis, LAMBDA d : d.category = "trend_analysis" /\ d.column = c)

\* C25 as stated: a 'Trend Change' descriptor is emitted for a Numeric
\* column exactly if it is one of the first two, the mean of the first
\* half is not zero and the change is above 10%.
C25_TrendChangeIffAbove10 ==
    (pc = "generated" /\ ~warned /\ schema.datetime_columns # <<>>) =>
        \A rows \in {TrendRows} :
            \A k \in 1..Len(schema.numeric_columns) :
                \A first \in {FirstHalf(rows, NumericColumn(k))} :
                    \A second \in {SecondHalf(rows, NumericColumn(k))} :
                        Len(TrendChanges(NumericColumn(k))) =
                            (IF k <= 2 /\ ChangeAbove10(first, second) THEN 1 ELSE 0)
\* C25: the same when at least 10 rows hold a date in the first Datetime
\* column; with fewer dated rows no 'Trend Change' descriptor is emitted.
C25_TrendChangeIffAbove10Of10Rows ==
    (pc = "generated" /\ ~warned /\ schema.datetime_columns # <<>>) =>
        \A rows \in {TrendRows} :
            \A k \in 1..Len(schema.numeric_columns) :
                \A first \in {FirstHalf(rows, NumericColumn(k))} :
                    \A second \in {SecondHalf(rows, NumericColumn(k))} :
                        Len(TrendChanges(NumericColumn(k))) =
                            (IF /\ Len(rows) >= 10
                                /\ k <= 2
                                /\ ChangeAbove10(first, second)
                             THEN 1 ELSE 0)
\* of the first two Numeric columns one changes by exactly 10% and has no
\* descriptor, the other by more and has one; a third one changes by more
\* and has none
C25_Witness ==
    /\ pc = "generated"
    /\ ~warned
    /\ schema.datetime_columns # <<>>
    /\ Len(schema.numeric_columns) >= 3
    /\ \E rows \in {TrendRows} :
           /\ Len(rows) >= 10
           /\ \E i, j \in 1..2 :
                  /\ ChangeExactly10(FirstHalf(rows, NumericColumn(i)),
                                     SecondHalf(rows, NumericColumn(i)))
                  /\ TrendChanges(NumericColumn(i)) = <<>>
                  /\ ChangeAbove10(FirstHalf(rows, NumericColumn(j)),
                                   SecondHalf(rows, NumericColumn(j)))
                  /\ Len(TrendChanges(NumericColumn(j))) = 1
           /\ ChangeAbove10(FirstHalf(rows, NumericColumn(3)),
                            SecondHalf(rows, NumericColumn(3)))
           /\ TrendChanges(NumericColumn(3)) = <<>>

(***************************************************************************)
(* Properties of the distribution rule.                                    *)
(***************************************************************************)
DistributionsOf(subcategory, c) ==
    SelectSeq(all_kpis, LAMBDA d : /\ d.category = "distribution_analysis"
                                   /\ d.subcategory = subcategory
                                   /\ d.column = c)

\* C27: a Numeric column with fewer than 10 values still has the Pareto
\* descriptor whenever its top-20% share is above 60% and the variability
\* descriptor whenever std / mean * 100 is above 50.
C27_ParetoAndVariabilityBelow10Values ==
    (pc = "generated" /\ ~warned) =>
        \A k \in 1..Len(schema.numeric_columns) :
            Len(Values(Col(df, NumericColumn(k)))) < MIN_DISTRIBUTION_VALUES =>
                /\ Concentrated(Values(Col(df, NumericColumn(k))))
                       => Len(DistributionsOf("pareto", NumericColumn(k))) = 1
                /\ HighlyVariable(Values(Col(df, NumericColumn(k))))
                       => Len(DistributionsOf("variability", NumericColumn(k))) = 1

(***************************************************************************)
(* schema_inference.get_schema_summary: the caller's table after the call. *)
(***************************************************************************)
\* lines 219-234: for each Datetime column of the schema the function
\* assigns df[col] = pd.to_datetime(df[col], errors='coerce') in the table
\* it was handed; a refused column is left as it was (the except branch)
RECURSIVE SummaryTable(_, _)
SummaryTable(t, datetime_columns) ==
    IF datetime_columns = <<>> THEN t
    ELSE LET col == Col(t, datetime_columns[1])
             after == IF CoerceRaises(col, DropNa(col.cells)) THEN t
                      ELSE AssignCoerced(t, datetime_columns[1])
         IN  SummaryTable(after, Tail(datetime_columns))

\* schema_summary = get_schema_summary(df, schema)
GetSchemaSummary ==
    /\ pc = "inferred"
    /\ pc' = "summarised"
    /\ df' = SummaryTable(df, schema.datetime_columns)
    /\ UNCHANGED <<schema, all_kpis, kpis, warned, sql, host>>

SpecSummary == InitInfer /\ [][InferSchema \/ GetSchemaSummary]_vars

\* C28: get_schema_summary leaves every column of the table, its storage
\* type and its cells, as infer_schema saw it.
C28_SummaryLeavesTableUnchanged ==
    [][pc' = "summarised" => df' = df]_vars

(***************************************************************************)
(* sql_generator.generate_sql_query                                        *)
(*                                                                         *)
(* A clause is the f-string of the source (template) with the values it    *)
(* substitutes (args), or raised when building it raises.  A descriptor    *)
(* handed in from outside may lack a key (the key is no field of the       *)
(* record) or hold None under a key whose values are words (the key is in  *)
(* its field nones).                                                       *)
(***************************************************************************)
\* kpi.get(key, default)
Get(kpi, key, default) == IF key \in DOMAIN kpi THEN kpi[key] ELSE default
HoldsNone(kpi, key) == "nones" \in DOMAIN kpi /\ key \in kpi.nones
NoneText == <<"N", "o", "n", "e">>
\* what an f-string prints for a name or None
Printed(x) == IF x = None THEN NoneText ELSE x

\* utils.sanitize_column_name
RECURSIVE LStrip(_)
LStrip(x) == IF x # <<>> /\ x[1] = "_" THEN LStrip(Tail(x)) ELSE x
RECURSIVE RStrip(_)
RStrip(x) == IF x # <<>> /\ x[Len(x)] = "_" THEN RStrip(SubSeq(x, 1, Len(x) - 1)) ELSE x
\* line 45: 'col_' and the first 8 characters of str(hash(column)), which
\* differ from process to process; "#" stands for them
HashedName == <<"c", "o", "l", "_", "#">>
sanitize_column_name(column) ==
    LET replaced == [i \in 1..Len(column) |-> IF IsWordCh(column[i]) THEN column[i] ELSE "_"]
        stripped == RStrip(LStrip(replaced))
        sanitized == IF stripped # <<>> /\ ~IsCased(stripped[1]) /\ stripped[1] # "_"
                     THEN <<"_">> \o stripped
                     ELSE stripped
    IN  IF sanitized # <<>> THEN sanitized ELSE HashedName

Clause(template, args) == [raised |-> FALSE, template |-> template, args |-> args]
NoClause == Clause("", <<>>)
Raised == [raised |-> TRUE, template |-> "", args |-> <<>>]

\* kpi.get('category', 'aggregation'), kpi.get('sql_function', 'SUM')
CategoryOf(kpi) == Get(kpi, "category", "aggregation")
SqlFunctionOf(kpi) == IF HoldsNone(kpi, "sql_function") THEN "None" ELSE Get(kpi, "sql_function", "SUM")
\* lines 27-32: a name is sanitized, None and '' are left as None
ColumnSanitized(kpi) ==
    IF Get(kpi, "column", None) # None THEN sanitize_column_name(kpi.column) ELSE None
GroupBySanitized(kpi) ==
    IF Get(kpi, "group_by", None) # None THEN sanitize_column_name(kpi.group_by) ELSE None

KnownCategories ==
    {"aggregation", "time_series", "category_breakdown", "conversion", "statistical",
     "ratio", "growth", "anomaly_detection", "pattern_detection", "comparative_analysis",
     "distribution_analysis", "trend_analysis"}

\* f'..{sql_function.lower()}..': None has no lower()
WithLower(kpi, template, args) ==
    IF HoldsNone(kpi, "sql_function") THEN Raised ELSE Clause(template, args)

\* lines 36-142: the branch of one of the known categories
BranchSelectClause(kpi, category) ==
    LET sql_function == SqlFunctionOf(kpi)
        column == Get(kpi, "column", None)
        group_by_function == Get(kpi, "group_by_function", "None")
        c == Printed(ColumnSanitized(kpi))
        g == Printed(GroupBySanitized(kpi))
        subcategory == Get(kpi, "subcategory", "None")
        status_values == Get(kpi, "status_values", <<>>)
        denominator == Get(kpi, "denominator", None)
    IN  CASE category = "aggregation" ->
                 IF sql_function = "COUNT" /\ column = None
                 THEN Clause("SELECT COUNT(*) AS total_records", <<>>)
                 ELSE IF sql_function = "COUNT_DISTINCT"
                 THEN WithLower(kpi, "SELECT COUNT(DISTINCT \"{column_sanitized}\") AS {sql_function.lower()}_{column_sanitized}", <<c, sql_function>>)
                 ELSE WithLower(kpi, "SELECT {sql_function}(\"{column_sanitized}\") AS {sql_function.lower()}_{column_sanitized}", <<sql_function, c>>)
          [] category = "time_series" ->
                 IF group_by_function = "YEAR"
                 THEN Clause("SELECT YEAR(\"{group_by_sanitized}\") AS year, {sql_function}(\"{column_sanitized}\") AS total_{column_sanitized}", <<g, sql_function, c>>)
                 ELSE IF group_by_function = "YEAR_MONTH"
                 THEN Clause("SELECT YEAR(\"{group_by_sanitized}\") AS year, MONTH(\"{group_by_sanitized}\") AS month, {sql_function}(\"{column_sanitized}\") AS total_{column_sanitized}", <<g, sql_function, c>>)
                 ELSE Clause("SELECT DATE(\"{group_by_sanitized}\") AS day, {sql_function}(\"{column_sanitized}\") AS total_{column_sanitized}", <<g, sql_function, c>>)
          [] category = "category_breakdown" ->
                 IF sql_function = "COUNT"
                 THEN Clause("SELECT \"{group_by_sanitized}\", COUNT(*) AS count", <<g>>)
                 ELSE Clause("SELECT \"{group_by_sanitized}\", {sql_function}(\"{column_sanitized}\") AS total_{column_sanitized}", <<g, sql_function, c>>)
          [] category = "conversion" ->
                 IF GroupBySanitized(kpi) = None
                 THEN Clause("SELECT COUNT(*) AS count", <<>>)
                 ELSE IF subcategory = "rate" /\ status_values # <<>>
                 THEN Clause("SELECT (COUNT(CASE WHEN \"{group_by_sanitized}\" = '{status_values[0]}' THEN 1 END) * 100.0 / COUNT(*)) AS conversion_rate", <<g, status_values[1]>>)
                 ELSE Clause("SELECT \"{group_by_sanitized}\", COUNT(*) AS count", <<g>>)
          [] category = "statistical" ->
                 IF sql_function = "MEDIAN"
                 THEN Clause("SELECT PERCENTILE_CONT(0.5) WITHIN GROUP (ORDER BY \"{column_sanitized}\") AS median_{column_sanitized}", <<c>>)
                 ELSE IF sql_function = "PERCENTILE"
                 THEN IF HoldsNone(kpi, "percentile") THEN Raised
                      ELSE Clause("SELECT PERCENTILE_CONT({percentile}) WITHIN GROUP (ORDER BY \"{column_sanitized}\") AS p{kpi.get(\"percentile\", 50)}_{column_sanitized}", <<Get(kpi, "percentile", 50), c>>)
                 ELSE WithLower(kpi, "SELECT {sql_function}(\"{column_sanitized}\") AS {sql_function.lower()}_{column_sanitized}", <<sql_function, c>>)
          [] category = "ratio" ->
                 IF denominator # None /\ column # None
                 THEN Clause("SELECT SUM(\"{column_sanitized}\") / SUM(\"{denominator_sanitized}\") AS {column_sanitized}_to_{denominator_sanitized}_ratio", <<c, sanitize_column_name(denominator)>>)
                 ELSE Clause("SELECT COUNT(*) AS count", <<>>)
          [] category = "growth" ->
                 Clause("SELECT DATE(\"{group_by_sanitized}\") AS period, {sql_function}(\"{column_sanitized}\") AS value, (({sql_function}(\"{column_sanitized}\") - LAG({sql_function}(\"{column_sanitized}\")) OVER (ORDER BY DATE(\"{group_by_sanitized}\"))) / LAG({sql_function}(\"{column_sanitized}\")) OVER (ORDER BY DATE(\"{group_by_sanitized}\")) * 100) AS growth_rate", <<g, sql_function, c>>)
          [] category = "anomaly_detection" ->
                 IF sql_function = "ANOMALY_RATE"
                 THEN Clause("SELECT (COUNT(CASE WHEN ABS(({column_sanitized} - AVG({column_sanitized})) / STDDEV({column_sanitized})) > 3 THEN 1 END) * 100.0 / COUNT(*)) AS anomaly_rate", <<c>>)
                 ELSE IF sql_function = "OUTLIER_DETECTION"
                 THEN Clause("SELECT COUNT(CASE WHEN {column_sanitized} < (Q1 - 1.5 * IQR) OR {column_sanitized} > (Q3 + 1.5 * IQR) THEN 1 END) AS outlier_count, COUNT(*) AS total_count", <<c>>)
                 ELSE Clause("SELECT COUNT(*) AS count", <<>>)
          [] category = "pattern_detection" ->
                 IF sql_function = "WEEKLY_PATTERN"
                 THEN Clause("SELECT DAYOFWEEK(\"{group_by_sanitized}\") AS day_of_week, AVG(\"{column_sanitized}\") AS avg_value", <<g, c>>)
                 ELSE IF sql_function = "MONTHLY_PATTERN"
                 THEN Clause("SELECT MONTH(\"{group_by_sanitized}\") AS month, AVG(\"{column_sanitized}\") AS avg_value", <<g, c>>)
                 ELSE Clause("SELECT AVG(\"{column_sanitized}\") AS avg_value", <<c>>)
          [] category = "comparative_analysis" ->
                 IF sql_function = "COMPARATIVE"
                 THEN Clause("SELECT \"{group_by_sanitized}\", AVG(\"{column_sanitized}\") AS avg_value, (AVG(\"{column_sanitized}\") - (SELECT AVG(\"{column_sanitized}\") FROM {table_name})) * 100.0 / (SELECT AVG(\"{column_sanitized}\") FROM {table_name}) AS pct_diff_from_avg", <<g, c>>)
                 ELSE IF sql_function = "PERFORMANCE_GAP"
                 THEN Clause("SELECT MAX(AVG(\"{column_sanitized}\")) - MIN(AVG(\"{column_sanitized}\")) AS performance_gap FROM {table_name} GROUP BY \"{group_by_sanitized}\"", <<c, g>>)
                 ELSE Clause("SELECT \"{group_by_sanitized}\", AVG(\"{column_sanitized}\") AS avg_value", <<g, c>>)
          [] category = "distribution_analysis" ->
                 IF sql_function = "SKEWNESS"
                 THEN Clause("SELECT (3 * (AVG(\"{column_sanitized}\") - PERCENTILE_CONT(0.5) WITHIN GROUP (ORDER BY \"{column_sanitized}\"))) / STDDEV(\"{column_sanitized}\") AS skewness", <<c>>)
                 ELSE IF sql_function = "CONCENTRATION"
                 THEN Clause("SELECT (SUM(CASE WHEN rn <= CEIL(COUNT(*) * 0.2) THEN \"{column_sanitized}\" ELSE 0 END) * 100.0 / SUM(\"{column_sanitized}\")) AS concentration_pct FROM (SELECT \"{column_sanitized}\", ROW_NUMBER() OVER (ORDER BY \"{column_sanitized}\" DESC) AS rn FROM {table_name}) ranked", <<c>>)
                 ELSE IF sql_function = "VARIABILITY"
                 THEN Clause("SELECT (STDDEV(\"{column_sanitized}\") / AVG(\"{column_sanitized}\") * 100) AS coefficient_of_variation", <<c>>)
                 ELSE Clause("SELECT AVG(\"{column_sanitized}\") AS avg_value", <<c>>)
          [] category = "trend_analysis" ->
                 IF sql_function = "TREND_CHANGE"
                 THEN Clause("SELECT AVG(CASE WHEN DATE(\"{group_by_sanitized}\") <= (SELECT DATE(\"{group_by_sanitized}\") FROM {table_name} ORDER BY DATE(\"{group_by_sanitized}\") LIMIT 1 OFFSET (SELECT COUNT(*) / 2 FROM {table_name})) THEN \"{column_sanitized}\" END) AS first_half_avg, AVG(CASE WHEN DATE(\"{group_by_sanitized}\") > (SELECT DATE(\"{group_by_sanitized}\") FROM {table_name} ORDER BY DATE(\"{group_by_sanitized}\") LIMIT 1 OFFSET (SELECT COUNT(*) / 2 FROM {table_name})) THEN \"{column_sanitized}\" END) AS second_half_avg", <<g, c>>)
                 ELSE Clause("SELECT DATE(\"{group_by_sanitized}\") AS period, AVG(\"{column_sanitized}\") AS avg_value", <<g, c>>)

\* the chain of lines 36-145 with its else taken as its first branch
SelectClause_UnknownAsAggregation(kpi) ==
    IF CategoryOf(kpi) \in KnownCategories
    THEN BranchSelectClause(kpi, CategoryOf(kpi))
    ELSE BranchSelectClause(kpi, "aggregation")
\* lines 36-145: the if/elif chain over the category and its else
SelectClause(kpi) ==
    IF CategoryOf(kpi) \in KnownCategories
    THEN BranchSelectClause(kpi, CategoryOf(kpi))
    ELSE Clause("SELECT COUNT(*) AS count", <<>>)

\* lines 150-183
GroupByClause(kpi) ==
    LET category == CategoryOf(kpi)
        sql_function == SqlFunctionOf(kpi)
        group_by == Get(kpi, "group_by", None)
        group_by_function == Get(kpi, "group_by_function", "None")
        g == Printed(GroupBySanitized(kpi))
    IN  IF category \in {"anomaly_detection", "distribution_analysis"} /\ sql_function # "CONCENTRATION"
        THEN NoClause
        ELSE IF category = "pattern_detection"
        THEN IF sql_function = "WEEKLY_PATTERN"
             THEN Clause("GROUP BY DAYOFWEEK(\"{group_by_sanitized}\")", <<g>>)
             ELSE IF sql_function = "MONTHLY_PATTERN"
             THEN Clause("GROUP BY MONTH(\"{group_by_sanitized}\")", <<g>>)
             ELSE IF group_by # None
             THEN IF group_by_function = "DATE"
                  THEN Clause("GROUP BY DATE(\"{group_by_sanitized}\")", <<g>>)
                  ELSE Clause("GROUP BY \"{group_by_sanitized}\"", <<g>>)
             ELSE NoClause
        ELSE IF category = "comparative_analysis"
        THEN IF group_by # None
             THEN Clause("GROUP BY \"{group_by_sanitized}\"", <<g>>)
             ELSE NoClause
        ELSE IF category = "trend_analysis"
        THEN NoClause
        ELSE IF group_by # None /\ category # "growth"
        THEN IF group_by_function = "DATE"
             THEN Clause("GROUP BY DATE(\"{group_by_sanitized}\")", <<g>>)
             ELSE IF group_by_function = "YEAR_MONTH"
             THEN Clause("GROUP BY YEAR(\"{group_by_sanitized}\"), MONTH(\"{group_by_sanitized}\")", <<g>>)
             ELSE Clause("GROUP BY \"{group_by_sanitized}\"", <<g>>)
        ELSE IF category = "growth" /\ group_by # None
        THEN IF group_by_function = "YEAR_MONTH"
             THEN Clause("GROUP BY YEAR(\"{group_by_sanitized}\"), MONTH(\"{group_by_sanitized}\")", <<g>>)
             ELSE Clause("GROUP BY DATE(\"{group_by_sanitized}\")", <<g>>)
        ELSE NoClause

\* lines 186-212
OrderByClause(kpi) ==
    LET category == CategoryOf(kpi)
        sql_function == SqlFunctionOf(kpi)
        group_by_function == Get(kpi, "group_by_function", "None")
    IN  IF category = "pattern_detection"
        THEN IF sql_function = "WEEKLY_PATTERN" THEN Clause("ORDER BY day_of_week", <<>>)
             ELSE IF sql_function = "MONTHLY_PATTERN" THEN Clause("ORDER BY month", <<>>)
             ELSE NoClause
        ELSE IF category = "comparative_analysis"
        THEN IF sql_function = "COMPARATIVE" THEN Clause("ORDER BY pct_diff_from_avg DESC", <<>>)
             ELSE IF sql_function = "PERFORMANCE_GAP" THEN Clause("ORDER BY performance_gap DESC", <<>>)
             ELSE NoClause
        ELSE IF category = "time_series"
        THEN IF group_by_function = "DATE" THEN Clause("ORDER BY day", <<>>)
             ELSE IF group_by_function = "YEAR" THEN Clause("ORDER BY year", <<>>)
             ELSE IF group_by_function = "YEAR_MONTH" THEN Clause("ORDER BY year, month", <<>>)
             ELSE NoClause
        ELSE IF category = "growth" THEN Clause("ORDER BY period", <<>>)
        ELSE IF category = "category_breakdown"
        THEN IF sql_function = "COUNT" THEN Clause("ORDER BY count DESC", <<>>)
             ELSE Clause("ORDER BY total_{column_sanitized} DESC", <<Printed(ColumnSanitized(kpi))>>)
        ELSE IF category = "conversion" /\ Get(kpi, "subcategory", "None") = "distribution"
        THEN Clause("ORDER BY count DESC", <<>>)
        ELSE NoClause

\* [raised, query_parts]: the clauses joined by the last lines, or raised
\* when the select clause raises (no other clause can)
generate_sql_query(kpi) ==
    LET select_clause == SelectClause(kpi)
        from_clause == Clause("FROM {table_name}", <<"your_table">>)
        group_by_clause == GroupByClause(kpi)
        order_by_clause == OrderByClause(kpi)
    IN  IF select_clause.raised THEN [raised |-> TRUE, query_parts |-> <<>>]
        ELSE [raised |-> FALSE,
              query_parts |-> <<select_clause, from_clause>>
                              \o (IF group_by_clause.template # "" THEN <<group_by_clause>> ELSE <<>>)
                              \o (IF order_by_clause.template # "" THEN <<order_by_clause>> ELSE <<>>)]

\* generate_sql_queries: one query per descriptor, under the descriptor's
\* name (the names of a catalogue are distinct)
generate_sql_queries(list) == [i \in 1..Len(list) |-> generate_sql_query(list[i])]

\* sql_queries = generate_sql_queries(kpis, "your_table") (app.py line 1313),
\* or the same call on descriptors that come from elsewhere
GenerateSqlQueries ==
    /\ pc \in {"generated", "descriptors"}
    /\ \E list \in {IF pc = "generated" THEN kpis ELSE sql.kpis} :
           sql' = [kpis |-> list, queries |-> generate_sql_queries(list)]
    /\ pc' = "queried"
    /\ UNCHANGED <<df, schema, all_kpis, kpis, warned, host>>

(***************************************************************************)
(* The inputs of the SQL generator: the catalogues of the tables above,    *)
(* and single descriptors of a category the generator does not know, with  *)
(* every combination of the keys it reads.                                 *)
(***************************************************************************)
UnknownCategories == {"forecast", "Aggregation", ""}
Optional(key, values) == {<<>>} \cup {[k \in {key} |-> v] : v \in values}
ForeignDescriptors ==
    {[name |-> <<"X">>, category |-> category, column |-> column, group_by |-> group_by]
       @@ sql_function @@ group_by_function @@ subcategory :
         category \in UnknownCategories,
         column \in {None, n_amount},
         group_by \in {None, n_order_date},
         sql_function \in Optional("sql_function", {"COUNT", "COUNT_DISTINCT", "CONCENTRATION"})
                            \cup {[nones |-> {"sql_function"}]},
         group_by_function \in Optional("group_by_function", {"DATE", "YEAR_MONTH"}),
         subcategory \in Optional("subcategory", {"distribution"})}

InitSql ==
    \/ InitWide
    \/ /\ df = <<>>
       /\ schema = EmptySchema
       /\ pc = "descriptors"
       /\ all_kpis = <<>>
       /\ kpis = <<>>
       /\ warned = FALSE
       /\ \E kpi \in ForeignDescriptors : sql = [kpis |-> <<kpi>>, queries |-> <<>>]
       /\ HostInit

SpecSql == InitSql /\ [][InferSchema \/ GenerateKpis \/ GenerateSqlQueries]_vars

(***************************************************************************)
(* Properties of the SQL generator.                                        *)
(***************************************************************************)
\* C26: generate_sql_query returns a query for every descriptor of a
\* catalogue and for every descriptor of an unknown category, raising for
\* none; for an unknown category the query selects COUNT(*).
C26_SqlNeverFails ==
    pc = "queried" =>
        \A i \in 1..Len(sql.kpis) :
            /\ ~sql.queries[i].raised
            /\ Len(sql.queries[i].query_parts) >= 2
            /\ CategoryOf(sql.kpis[i]) \notin KnownCategories
                   => sql.queries[i].query_parts[1].template = "SELECT COUNT(*) AS count"
\* a descriptor of an unknown category that holds a column, a grouping
\* column and None as its function, and its query of three clauses
C26_Witness ==
    /\ pc = "queried"
    /\ \E i \in 1..Len(sql.kpis) :
           /\ CategoryOf(sql.kpis[i]) \notin KnownCategories
           /\ HoldsNone(sql.kpis[i], "sql_function")
           /\ sql.kpis[i].column # None
           /\ sql.kpis[i].group_by # None
           /\ ~sql.queries[i].raised
           /\ Len(sql.queries[i].query_parts) = 3
           /\ sql.queries[i].query_parts[1].template = "SELECT COUNT(*) AS count"

(***************************************************************************)
(* app.main: the session of the host app.                                  *)
(*                                                                         *)
(* Streamlit runs main() from its first line after every user action, and  *)
(* a user action that arrives while a run is under way ends that run       *)
(* between two of its blocks.  A run is the sequence of the blocks of      *)
(* main(); run is the block that comes next, "idle" when the run is over.  *)
(*   top         the Reset and example buttons, the uploader (735-941)     *)
(*   load        loading the dataset (943-990)                             *)
(*   schema, quality, statistics, insights                                 *)
(*               the cached analyses (1006-1014, 1098-1103, 1201-1206,     *)
(*               1306-1325)                                                *)
(*   generate    the Generate KPIs button (1384-1397)                      *)
(*   display     the KPI section (1400-1409)                               *)
(***************************************************************************)
Examples == {"BMW sales data (2010-2024).csv", "StudentsPerformance.csv", "orders.csv"}
UploadFiles == {"sales.csv", "report.xlsx"}
NoEvent == [kind |-> "none", file |-> NoFile]

\* the list of lines 819, 838, 857 and 960 without 'kpis' and 'sql_queries'
ClearedKeys_WithoutKpis ==
    {"schema", "quality_report", "statistical_summary", "insights", "grouped_insights"}
\* lines 819, 838, 857 and 960: the keys deleted when a dataset is stored
ClearedKeys ==
    {"schema", "quality_report", "statistical_summary", "insights", "kpis", "sql_queries",
     "grouped_insights"}

\* the session after the deletion of ClearedKeys and the assignment of
\* 'df' and 'file_name'
Stored(s, name) ==
    [key \in SessionKeys |->
        IF key \in {"df", "file_name"} THEN name
        ELSE IF key \in ClearedKeys THEN Absent
        ELSE s[key]]

\* lines 877-880: the local uploaded_file.name; with a dataset in the
\* session it is the session's file_name, whatever the uploader holds
LocalFile(s) ==
    IF s["df"] # Absent /\ s["file_name"] # Absent THEN s["file_name"] ELSE uploaded_file

\* the dataset an analysis is computed from: the session's dataset when
\* the cached values it reads were computed from it too
From(s, inputs) ==
    IF \A key \in inputs : s[key] = s["df"] THEN s["df"] ELSE "mixed"

\* if key not in st.session_state or
\*    st.session_state.get('file_name') != uploaded_file.name
Recompute(s, key) == s[key] = Absent \/ s["file_name"] # LocalFile(s)

\* The user presses Reset All Data.
PressReset ==
    /\ event' = [kind |-> "reset", file |-> NoFile]
    /\ run' = "top"
    /\ UNCHANGED <<engine, sql, session, uploaded_file>>

\* The user presses one of the three example buttons.
PressExample ==
    /\ \E e \in Examples : event' = [kind |-> "example", file |-> e]
    /\ run' = "top"
    /\ UNCHANGED <<engine, sql, session, uploaded_file>>

\* The user puts a file into the uploader, replaces it or removes it.
ChangeUpload ==
    /\ \E f \in UploadFiles \cup {NoFile} :
           /\ f # uploaded_file
           /\ uploaded_file' = f
           /\ event' = [kind |-> "upload", file |-> f]
    /\ run' = "top"
    /\ UNCHANGED <<engine, sql, session>>

\* The user presses Generate Comprehensive KPIs, which the last run showed.
PressGenerate ==
    /\ run = "idle"
    /\ session["insights"] # Absent
    /\ event' = [kind |-> "generate", file |-> NoFile]
    /\ run' = "top"
    /\ UNCHANGED <<engine, sql, session, uploaded_file>>

\* lines 735-738, 812-860 and 877-941.  Reset and a pressed example button
\* end in st.rerun(): the next run starts with no button pressed; so does,
\* in effect, the run of an example button whose file does not exist.
RunTop ==
    /\ run = "top"
    /\ IF event.kind = "reset"
       THEN session' = EmptySession /\ event' = NoEvent /\ run' = "top"
       ELSE IF event.kind = "example"
       THEN /\ \E exists \in BOOLEAN :
                   session' = IF exists THEN Stored(session, event.file) ELSE session
            /\ event' = NoEvent
            /\ run' = "top"
       ELSE /\ run' = IF session["df"] # Absent /\ session["file_name"] # Absent THEN "load"
                      ELSE IF uploaded_file = NoFile THEN "idle"
                      ELSE "load"
            /\ UNCHANGED <<session, event>>
    /\ UNCHANGED <<engine, sql, uploaded_file>>

\* lines 943-990: the file is read when no dataset is in the session or
\* the local name differs from the session's; a file that cannot be read
\* ends the run
RunLoad ==
    /\ run = "load"
    /\ IF session["df"] = Absent \/ LocalFile(session) # session["file_name"]
       THEN \E readable \in BOOLEAN :
                IF readable
                THEN session' = Stored(session, LocalFile(session)) /\ run' = "schema"
                ELSE session' = session /\ run' = "idle"
       ELSE session' = session /\ run' = "schema"
    /\ UNCHANGED <<engine, sql, uploaded_file, event>>

\* lines 1006-1014
RunSchema ==
    /\ run = "schema"
    /\ session' = IF Recompute(session, "schema")
                  THEN [session EXCEPT !["schema"] = session["df"],
                                       !["schema_summary"] = session["df"]]
                  ELSE session
    /\ run' = "quality"
    /\ UNCHANGED <<engine, sql, uploaded_file, event>>

\* lines 1098-1103
RunQuality ==
    /\ run = "quality"
    /\ session' = IF Recompute(session, "quality_report")
                  THEN [session EXCEPT !["quality_report"] = From(session, {"schema"})]
                  ELSE session
    /\ run' = "statistics"
    /\ UNCHANGED <<engine, sql, uploaded_file, event>>

\* lines 1201-1206
RunStatistics ==
    /\ run = "statistics"
    /\ session' = IF Recompute(session, "statistical_summary")
                  THEN [session EXCEPT !["statistical_summary"] = From(session, {"schema"})]
                  ELSE session
    /\ run' = "insights"
    /\ UNCHANGED <<engine, sql, uploaded_file, event>>

\* lines 1310-1315, 1391-1395: kpis = generate_kpis(schema, df) and its
\* queries
WithKpis(s) ==
    [s EXCEPT !["kpis"] = From(s, {"schema"}),
              !["sql_queries"] = From(s, {"schema"}),
              !["table_name"] = "your_table"]

\* lines 1306-1325
RunInsights ==
    /\ run = "insights"
    /\ session' = IF Recompute(session, "insights")
                  THEN LET s == IF session["kpis"] = Absent THEN WithKpis(session) ELSE session
                           insights == From(s, {"schema", "kpis", "quality_report",
                                                "statistical_summary"})
                       IN  [s EXCEPT !["insights"] = insights,
                                     !["grouped_insights"] = insights]
                  ELSE session
    /\ run' = "generate"
    /\ UNCHANGED <<engine, sql, uploaded_file, event>>

\* lines 1384-1397
RunGenerate ==
    /\ run = "generate"
    /\ session' = IF event.kind = "generate" THEN WithKpis(session) ELSE session
    /\ run' = "display"
    /\ UNCHANGED <<engine, sql, uploaded_file, event>>

\* lines 1400-1409
RunDisplay ==
    /\ run = "display"
    /\ session' = IF session["kpis"] # Absent /\ session["sql_queries"] = Absent
                  THEN [session EXCEPT !["sql_queries"] = session["kpis"],
                                       !["table_name"] = "your_table"]
                  ELSE session
    /\ run' = "idle"
    /\ UNCHANGED <<engine, sql, uploaded_file, event>>

InitHost ==
    /\ df = <<>>
    /\ schema = EmptySchema
    /\ pc = "host"
    /\ all_kpis = <<>>
    /\ kpis = <<>>
    /\ warned = FALSE
    /\ sql = NoSql
    /\ HostInit

NextHost ==
    \/ PressReset
    \/ PressExample
    \/ ChangeUpload
    \/ PressGenerate
    \/ RunTop
    \/ RunLoad
    \/ RunSchema
    \/ RunQuality
    \/ RunStatistics
    \/ RunInsights
    \/ RunGenerate
    \/ RunDisplay

SpecHost == InitHost /\ [][NextHost]_vars

(***************************************************************************)
(* Properties of the session.                                              *)
(***************************************************************************)
CachedAnalyses ==
    {"schema", "schema_summary", "quality_report", "statistical_summary", "insights",
     "grouped_insights", "kpis", "sql_queries"}
OfCurrentDataset(key) == session[key] \in {Absent, session["df"]}

\* C29: every cached analysis in the session was computed from the
\* session's dataset; the one exception is the schema summary of the
\* previous dataset, which stays in the session until the schema block of
\* the run that follows the replacement computes it anew (the schema is
\* absent until then), and no block reads it before.
C29_CachesOfCurrentDataset ==
    /\ \A key \in CachedAnalyses \ {"schema_summary"} : OfCurrentDataset(key)
    /\ ~OfCurrentDataset("schema_summary") =>
           /\ session["schema"] = Absent
           /\ run \in {"top", "load", "schema"}
\* an example dataset has replaced an analysed dataset: its analyses are
\* gone, the summary of the previous one waits to be computed anew
C29_Witness ==
    /\ session["df"] \in Examples
    /\ session["schema_summary"] \in (Examples \cup UploadFiles) \ {session["df"]}
    /\ session["schema"] = Absent
    /\ session["kpis"] = Absent
    /\ run = "schema"

\* C30: the load block of the run after an upload, with a dataset in the
\* session and a file of another name in the uploader, stores the uploaded
\* file and its name in the session and deletes the previous analysis.
C30_UploadReplacesDataset ==
    [][(/\ run = "load"
        /\ run' # "top"
        /\ event.kind = "upload"
        /\ session["df"] # Absent
        /\ uploaded_file # NoFile
        /\ uploaded_file # session["file_name"])
       => (/\ session'["df"] = uploaded_file
           /\ session'["file_name"] = uploaded_file
           /\ \A key \in ClearedKeys : session'[key] = Absent)]_vars

=============================================================================
